---- MODULE Spec2Model ----
(***************************************************************************)
(* Model of the NetBox DNS installer: install.py (argument validation and  *)
(* module dispatch), modules/pip_dependencies.py, modules/bind_install.py, *)
(* modules/octodns_install.py and modules/ipdns_install.py.                *)
(*                                                                         *)
(* A run starts either at main() with a parsed command line, or at one of  *)
(* the orchestration functions install_dns, install_octodns, install_ipdns *)
(* or at backup_file, called directly with their parameters.  Every        *)
(* external command and filesystem call draws its outcome from the         *)
(* outcomes the operating system can produce.                              *)
(***************************************************************************)
EXTENDS Integers, Sequences, FiniteSets, TLC

----------------------------------------------------------------------------
(* Bounds of the model *)

\* exit codes of external commands range over 0..MaxExit
MaxExit == 2
\* number of packages handed to install_bind_packages
MaxPkgs == 2
\* number of entries of etc_directories
MaxEtcDirs == 2
\* number of entries of managed_directories
MaxManaged == 2
\* number of named.* files the glob of copy_named_files can find
MaxNamedFiles == 1
\* number of sub-directories of the configuration source tree (one file each,
\* besides named.conf.acl in the root of the tree)
MaxSubDirs == 2
\* the wall clock runs over the ticks 0..MaxTick
MaxTick == 2
\* ticks of the wall clock to one second, the resolution of the timestamps
TicksPerSecond == 2

----------------------------------------------------------------------------
(* Values *)

\* Python None, the empty string, and the address used for --secondary / the
\* server_ip of the environment configuration
None == "None"
EmptyStr == ""
SecondaryIp == "10.0.0.2"
ServerIp == "9.12.46.8"

\* Python truthiness of an optional string ("not args.secondary")
Truthy(s) == s \notin {None, EmptyStr}

Modules == <<"pip", "dns", "octodns", "ipdns">>
ModuleSet == {"pip", "dns", "octodns", "ipdns"}

\* outcomes of subprocess.run(..., check=False): the process ran and exited
\* with a code, or the call raised (SubprocessError, or an OSError such as
\* FileNotFoundError when the executable cannot be started)
CmdOutcome ==
    {[kind |-> "exit", code |-> c] : c \in 0..MaxExit}
        \cup {[kind |-> "SubprocessError", code |-> -1],
              [kind |-> "OSError", code |-> -1]}

\* outcomes of a filesystem call (os.makedirs, os.chmod, open, shutil.copy2)
FsOutcome == {"ok", "OSError"}

NoCmd == [cmd |-> "none", kind |-> "none", code |-> -1, verdict |-> "none"]

\* the command exited with code 0
Good(o) == o.kind = "exit" /\ o.code = 0

\* one entry of the spy list: the step of the orchestration function, the
\* item of the step's list, the position inside the item, the operation, and
\* whether it succeeded (exit code 0, no exception)
Act(fn, step, item, sub, op, good) ==
    [fn |-> fn, step |-> step, item |-> item, sub |-> sub, op |-> op, good |-> good]

VARIABLES
    entry,      \* the function the run was started at
    args,       \* the command line of main (argparse namespace)
    params,     \* the parameters of a directly called function
    pc,         \* position of the run
    i,          \* index of the loop the run is in
    ok,         \* the local "success" of a batch step
    success,    \* main's "success"
    exitCode,   \* exit code of the process (-1: still running / no process)
    started,    \* the modules main has started, in order
    ret,        \* what each module's function returned: none/true/false/raised
    trace,      \* spy list: every command and filesystem call performed
    results,    \* the steps that have returned, with their results
    lastCmd,    \* the external command run by the last action, if any
    missing,    \* check_packages_installed: the packages found missing
    dnfCommand, \* install_bind_packages: the packages handed to "dnf install"
    found,      \* copy_named_files: the number of files the glob found
    copies,     \* the iterations of the copy loops performed so far
    fs,         \* the files and directories of the host
    clock       \* wall clock, in ticks

vars == <<entry, args, params, pc, i, ok, success, exitCode, started, ret,
          trace, results, lastCmd, missing, dnfCommand, found, copies, fs, clock>>

bindVars == <<missing, dnfCommand, found, copies>>

----------------------------------------------------------------------------
(* Contents of files: a sequence of tokens <<tag, kind, n>> *)

IpPlaceholder == <<"$ip", "", 0>>
Absent == [exists |-> FALSE, content |-> <<>>]
File(c) == [exists |-> TRUE, content |-> c]

\* the owner, the permission bits and the SGID bit of a directory: of a
\* directory that does not exist, and of one os.makedirs has just created
NoAttrs == [owner |-> None, mode |-> None, sgid |-> FALSE]
NewDirAttrs == [owner |-> "root:root", mode |-> "umask", sgid |-> FALSE]

\* a provisioning call on directory d with the file system g: os.makedirs
\* (exist_ok), "chown owner", os.chmod(mode), which sets the mode bits as
\* given, and os.chmod(st_mode | S_ISGID).
\* ApplyOp_NoSgid leaves the SGID bit as it is
ApplyOp_NoSgid(g, d, op, owner, mode) ==
    CASE op = "makedirs" ->
           IF d \in g.dirs THEN g
           ELSE [g EXCEPT !.dirs = @ \cup {d}, !.attrs[d] = NewDirAttrs]
      [] op \in {"chown", "chown -R"} -> [g EXCEPT !.attrs[d].owner = owner]
      [] op = "chmod" -> [g EXCEPT !.attrs[d].mode = mode, !.attrs[d].sgid = FALSE]
      [] op = "chmod sgid" -> g

ApplyOp(g, d, op, owner, mode) ==
    CASE op = "makedirs" ->
           IF d \in g.dirs THEN g
           ELSE [g EXCEPT !.dirs = @ \cup {d}, !.attrs[d] = NewDirAttrs]
      [] op \in {"chown", "chown -R"} -> [g EXCEPT !.attrs[d].owner = owner]
      [] op = "chmod" -> [g EXCEPT !.attrs[d].mode = mode, !.attrs[d].sgid = FALSE]
      [] op = "chmod sgid" -> [g EXCEPT !.attrs[d].sgid = TRUE]

\* the calls ops made one after the other
RECURSIVE ApplyOps(_, _, _, _, _)
ApplyOps(g, d, ops, owner, mode) ==
    IF ops = <<>> THEN g
    ELSE ApplyOps(ApplyOp(g, d, Head(ops), owner, mode), d, Tail(ops), owner, mode)

\* the calls ops of which the last failed unless res
Provision(g, d, ops, res, owner, mode) ==
    ApplyOps(g, d, SubSeq(ops, 1, IF res THEN Len(ops) ELSE Len(ops) - 1), owner, mode)

\* config.OCTODNS_USER:OCTODNS_GROUP and OCTODNS_DIR_MODE, and
\* config.IPDNS_USER:IPDNS_GROUP and IPDNS_DIR_MODE
OctodnsOwner == "root:named"
OctodnsMode == "0o755"
IpdnsOwner == "netbox:netbox"
IpdnsMode == "0o755"

\* config.OCTODNS_CONFIG_DIR and config.OCTODNS_CONFIG_FILE, a file of that
\* directory
ConfigDir == <<"octodns_config", 0>>
ConfigFile == <<"config.yaml", 0>>

\* string.Template: a template is a sequence of literal pieces, of
\* placeholders "$name", and of "$" signs no identifier follows
Lit(k) == <<"lit", k>>
Placeholder(name) == <<"$", name>>
InvalidPlaceholder == <<"$", "">>

\* the keys create_config_file reads from env_config
Keys == {"server_url", "server_api_key", "server_ip"}

\* config.OCTODNS_CONFIG_TEMPLATE: three placeholders between its literal text
OCTODNS_CONFIG_TEMPLATE ==
    <<Lit("providers"), Placeholder("server_url"), Lit("token"),
      Placeholder("server_api_key"), Lit("rfc2136"), Placeholder("server_ip"),
      Lit("zones")>>

\* the templates a caller may pass: the one of config.py, one that uses one
\* of the three keys, one without a placeholder, one that names another
\* placeholder, and one with an invalid placeholder
Templates ==
    {OCTODNS_CONFIG_TEMPLATE,
     <<Lit("host"), Placeholder("server_ip")>>,
     <<Lit("static")>>,
     <<Placeholder("server_url"), Lit("zone"), Placeholder("zone_name")>>,
     <<Placeholder("server_url"), InvalidPlaceholder>>}

\* an entry of config.ENVIRONMENTS that holds the keys K
EnvConfig(K) == [k \in K |-> <<"value", k>>]

\* config.get_env_config(): the entry of the current environment
get_env_config == EnvConfig(Keys)

\* the mappings a caller may pass
EnvConfigs ==
    {EnvConfig(Keys), EnvConfig(Keys \cup {"zone_name"}),
     EnvConfig(Keys \ {"server_ip"}), EnvConfig(Keys \ {"server_url"}),
     EnvConfig({})}

----------------------------------------------------------------------------
(* install.py: parse_arguments *)

ArgSpace ==
    [pip_packages : BOOLEAN, dns : BOOLEAN, primary : BOOLEAN,
     secondary : {None, EmptyStr, SecondaryIp},
     octodns : BOOLEAN, ipdns : BOOLEAN, all : BOOLEAN]

NoArgs ==
    [pip_packages |-> FALSE, dns |-> FALSE, primary |-> FALSE, secondary |-> None,
     octodns |-> FALSE, ipdns |-> FALSE, all |-> FALSE]

\* a validation block without the check that DNS has a role
ParserError_NoRoleCheck(a) ==
    IF (a.dns \/ a.all) /\ a.primary /\ Truthy(a.secondary)
    THEN "Cannot specify both --primary and --secondary"
    ELSE IF ~a.pip_packages /\ ~a.dns /\ ~a.octodns /\ ~a.ipdns /\ ~a.all
    THEN "No installation module selected"
    ELSE "none"

\* parser.error() of the validation block: the message, or "none"
ParserError(a) ==
    IF (a.dns \/ a.all) /\ ~a.primary /\ ~Truthy(a.secondary)
    THEN "--dns requires either --primary or --secondary"
    ELSE IF (a.dns \/ a.all) /\ a.primary /\ Truthy(a.secondary)
    THEN "Cannot specify both --primary and --secondary"
    ELSE IF ~a.pip_packages /\ ~a.dns /\ ~a.octodns /\ ~a.ipdns /\ ~a.all
    THEN "No installation module selected"
    ELSE "none"

\* main: run_pip, run_dns, run_octodns, run_ipdns
Requested(a, m) ==
    CASE m = "pip" -> a.pip_packages \/ a.all
      [] m = "dns" -> a.dns \/ a.all
      [] m = "octodns" -> a.octodns \/ a.all
      [] m = "ipdns" -> a.ipdns \/ a.all

\* the position of main after module m
AfterModule(m) ==
    CASE m = "pip" -> "main_dns"
      [] m = "dns" -> "main_octodns"
      [] m = "octodns" -> "main_ipdns"
      [] m = "ipdns" -> "main_exit"

----------------------------------------------------------------------------
(* Parameter binding of the wrappers of install.py *)

\* parameters of install_dns without a default value
InstallDnsRequired ==
    {"configs_path", "primary_config_dir", "bind_packages", "chroot_etc",
     "chroot_log", "etc_directories", "managed_directories", "dir_mode",
     "bind_user", "bind_group", "bind_service", "source_named_files",
     "dest_named_files"}

\* keyword arguments run_dns_install passes to install_dns
RunDnsInstallPassed ==
    {"configs_path", "primary_config_dir", "bind_packages", "chroot_etc",
     "chroot_log", "etc_directories", "managed_directories", "dir_mode",
     "bind_user", "bind_group", "bind_service", "primary_ip", "secondary_ip"}

\* parameters of install_ipdns (none has a default value)
InstallIpdnsRequired ==
    {"repo_url", "plugins_path", "ipdns_config", "shared_dir", "dir_mode", "user",
     "group", "netbox_override_dir", "rqworker_override_dir",
     "service_override_content", "sudoers_file", "sudoers_content", "services",
     "netbox_config_file", "logging_config", "plugins_list",
     "plugins_config_settings", "python_path", "manage_py", "log_dir", "log_file",
     "pip_path"}

\* keyword arguments run_ipdns_install passes to install_ipdns
RunIpdnsInstallPassed == {"repo_url", "plugins_path", "ipdns_config"}

\* parameters of install_octodns and what run_octodns_install passes
InstallOctodnsRequired ==
    {"config_dir", "config_file", "template", "dir_mode", "user", "group",
     "env_config"}

RunOctodnsInstallPassed ==
    {"config_dir", "config_file", "template", "dir_mode", "user", "group",
     "env_config"}

\* a Python call binds when every parameter without default is passed;
\* otherwise it raises TypeError before the body runs
Binds(required, passed) == required \subseteq passed

----------------------------------------------------------------------------
(* Return of a module's function to its caller *)

\* the function of module m ends with r ("true", "false" or "raised").
\* Called from main (install.py 281-302): a False result clears success, an
\* exception ends the process with exit code 1.  Called directly: the run ends.
ModuleEnd(m, r) ==
    /\ ret' = [ret EXCEPT ![m] = r]
    /\ IF entry = "main"
       THEN IF r = "raised"
            THEN /\ pc' = "done"
                 /\ exitCode' = 1
                 /\ success' = success
            ELSE /\ pc' = AfterModule(m)
                 /\ success' = (success /\ r = "true")
                 /\ exitCode' = exitCode
       ELSE /\ pc' = "done"
            /\ UNCHANGED <<success, exitCode>>

\* a sequencer without short-circuit: the result of a failed step is recorded
\* and the function goes on with the next step all the same
IfNotReturnFalse_GoOn(m, step, r, next) ==
    /\ results' = Append(results, [fn |-> m, step |-> step, res |-> r])
    /\ IF next = "return"
       THEN ModuleEnd(m, IF r THEN "true" ELSE "false")
       ELSE /\ pc' = next
            /\ UNCHANGED <<ret, success, exitCode>>

\* "if not step(...): return False" of the orchestration functions: a step
\* that returned True lets the function go on at next (after the last step:
\* "return True"), a step that returned False makes the function return False
IfNotReturnFalse(m, step, r, next) ==
    /\ results' = Append(results, [fn |-> m, step |-> step, res |-> r])
    /\ IF r
       THEN IF next = "return"
            THEN ModuleEnd(m, "true")
            ELSE /\ pc' = next
                 /\ UNCHANGED <<ret, success, exitCode>>
       ELSE ModuleEnd(m, "false")

\* a best-effort step handled as the other steps are
IfNotWarn_Abort(m, step, r, next) == IfNotReturnFalse(m, step, r, next)

\* "if not step(...): logger.warning(...)": the result of a best-effort step
\* is logged and the function goes on at next
IfNotWarn(m, step, r, next) ==
    /\ results' = Append(results, [fn |-> m, step |-> step, res |-> r])
    /\ pc' = next
    /\ UNCHANGED <<ret, success, exitCode>>

\* a batch loop that returns False at the first item that fails
BatchItem_Stop(m, step, r, last, next) ==
    IF ~r \/ i = last
    THEN /\ IfNotReturnFalse(m, step, ok /\ r, next)
         /\ i' = 1
         /\ ok' = TRUE
    ELSE /\ i' = i + 1
         /\ ok' = ok
         /\ UNCHANGED <<pc, ret, success, exitCode, results>>

\* a batch loop that retries: a failed item is attempted again
BatchItem_Retry(m, step, r, last, next) ==
    IF ~r
    THEN /\ i' = i
         /\ ok' = ok
         /\ UNCHANGED <<pc, ret, success, exitCode, results>>
    ELSE IF i = last
    THEN /\ IfNotReturnFalse(m, step, ok, next)
         /\ i' = 1
         /\ ok' = TRUE
    ELSE /\ i' = i + 1
         /\ ok' = ok
         /\ UNCHANGED <<pc, ret, success, exitCode, results>>

\* one iteration of the loop of a batch step ("success = True; for ...: on
\* error success = False; return success") with item result r: the loop goes
\* on to the next item whatever r is; after item last the step returns
\* its success to the orchestration function
BatchItem(m, step, r, last, next) ==
    IF i = last
    THEN /\ IfNotReturnFalse(m, step, ok /\ r, next)
         /\ i' = 1
         /\ ok' = TRUE
    ELSE /\ i' = i + 1
         /\ ok' = (ok /\ r)
         /\ UNCHANGED <<pc, ret, success, exitCode, results>>

\* an exception no handler of the module catches leaves the function
Raise(m) ==
    /\ results' = results
    /\ ModuleEnd(m, "raised")

\* the verdict a wrapper passes on a command that exited with code c
Classify(o) ==
    CASE o.kind = "exit" /\ o.code = 0 -> "success"
      [] o.kind = "exit" /\ o.code # 0 -> "failure"
      [] o.kind = "SubprocessError" -> "failure"
      [] o.kind = "OSError" -> "raise"

Cmd(name, o, verdict) ==
    [cmd |-> name, kind |-> o.kind, code |-> o.code, verdict |-> verdict]

----------------------------------------------------------------------------
(* install.py: main *)

\* parse_arguments, then "success = True" of main.  parser.error() exits the
\* process with code 2.
parse_arguments ==
    /\ pc = "parse"
    /\ IF ParserError(args) # "none"
       THEN /\ pc' = "done"
            /\ exitCode' = 2
       ELSE /\ pc' = "main_pip"
            /\ exitCode' = exitCode
    /\ success' = TRUE
    /\ lastCmd' = NoCmd
    /\ UNCHANGED <<entry, args, params, i, ok, started, ret, trace, results,
                   bindVars, fs, clock>>

\* pip_dependencies.install_packages: pip_exists is os.path.exists(pip_path),
\* o the outcome of "pip install <packages>".  Every exception is caught.
install_packages(pip_exists, o) ==
    IF ~pip_exists
    THEN [res |-> FALSE, acts |-> <<>>, cmd |-> NoCmd]
    ELSE [res |-> (o.kind = "exit" /\ o.code = 0),
          acts |-> <<Act("pip", 1, 1, 1, "pip install", Good(o))>>,
          cmd |-> Cmd("pip install", o,
                      IF o.kind = "exit" /\ o.code = 0 THEN "success" ELSE "failure")]

\* main: "if run_pip: if not run_pip_packages(logger): success = False"
main_run_pip ==
    /\ pc = "main_pip"
    /\ IF Requested(args, "pip")
       THEN \E pip_exists \in BOOLEAN, o \in CmdOutcome :
              LET r == install_packages(pip_exists, o) IN
              /\ started' = Append(started, "pip")
              /\ trace' = trace \o r.acts
              /\ lastCmd' = r.cmd
              /\ ModuleEnd("pip", IF r.res THEN "true" ELSE "false")
       ELSE /\ pc' = "main_dns"
            /\ lastCmd' = NoCmd
            /\ UNCHANGED <<started, trace, ret, success, exitCode>>
    /\ UNCHANGED <<entry, args, params, i, ok, results, bindVars, fs, clock>>

\* main: "if run_dns: if not run_dns_install(logger, args.primary,
\* args.secondary): success = False", with run_dns_install's call of
\* install_dns
main_run_dns ==
    /\ pc = "main_dns"
    /\ lastCmd' = NoCmd
    /\ IF Requested(args, "dns")
       THEN /\ started' = Append(started, "dns")
            /\ IF Binds(InstallDnsRequired, RunDnsInstallPassed)
               THEN /\ pc' = "dns_validate"
                    /\ params' = [params EXCEPT
                                    !.primary_ip = IF args.primary THEN ServerIp ELSE None,
                                    !.secondary_ip = args.secondary]
                    /\ UNCHANGED <<ret, success, exitCode>>
               ELSE /\ ModuleEnd("dns", "raised")
                    /\ params' = params
       ELSE /\ pc' = "main_octodns"
            /\ UNCHANGED <<started, params, ret, success, exitCode>>
    /\ UNCHANGED <<entry, args, i, ok, trace, results, bindVars, fs, clock>>

\* main: "if run_octodns: if not run_octodns_install(logger): success = False"
main_run_octodns ==
    /\ pc = "main_octodns"
    /\ lastCmd' = NoCmd
    /\ IF Requested(args, "octodns")
       THEN /\ started' = Append(started, "octodns")
            /\ IF Binds(InstallOctodnsRequired, RunOctodnsInstallPassed)
               THEN /\ pc' = "octo_1"
                    /\ params' = [params EXCEPT
                                    !.template = OCTODNS_CONFIG_TEMPLATE,
                                    !.env_config = get_env_config]
                    /\ UNCHANGED <<ret, success, exitCode>>
               ELSE /\ ModuleEnd("octodns", "raised")
                    /\ params' = params
       ELSE /\ pc' = "main_ipdns"
            /\ UNCHANGED <<started, params, ret, success, exitCode>>
    /\ UNCHANGED <<entry, args, i, ok, trace, results, bindVars, fs, clock>>

\* main: "if run_ipdns: if not run_ipdns_install(logger): success = False"
main_run_ipdns ==
    /\ pc = "main_ipdns"
    /\ lastCmd' = NoCmd
    /\ IF Requested(args, "ipdns")
       THEN /\ started' = Append(started, "ipdns")
            /\ IF Binds(InstallIpdnsRequired, RunIpdnsInstallPassed)
               THEN /\ pc' = "ipdns_1"
                    /\ UNCHANGED <<ret, success, exitCode>>
               ELSE ModuleEnd("ipdns", "raised")
       ELSE /\ pc' = "main_exit"
            /\ UNCHANGED <<started, ret, success, exitCode>>
    /\ UNCHANGED <<entry, args, params, i, ok, trace, results, bindVars, fs, clock>>

\* main: the final status report; sys.exit(1) unless success
main_exit ==
    /\ pc = "main_exit"
    /\ pc' = "done"
    /\ exitCode' = IF success THEN 0 ELSE 1
    /\ lastCmd' = NoCmd
    /\ UNCHANGED <<entry, args, params, i, ok, success, started, ret, trace,
                   results, bindVars, fs, clock>>

----------------------------------------------------------------------------
(* modules/octodns_install.py *)

\* the names of the placeholders of a template
PlaceholdersOf(t) ==
    {t[j][2] : j \in {j \in 1..Len(t) : t[j][1] = "$" /\ t[j] # InvalidPlaceholder}}

\* Template.safe_substitute: a placeholder without a value is left in place
Substitute_Safe(t, mapping) ==
    [err |-> "none",
     text |-> [j \in 1..Len(t) |->
                 IF t[j][1] = "$" /\ t[j][2] \in DOMAIN mapping
                 THEN mapping[t[j][2]] ELSE t[j]]]

\* a substitution that returns the template as it is
Substitute_Identity(t, mapping) == [err |-> "none", text |-> t]

\* Template.substitute(**mapping): the placeholders are replaced from left
\* to right; the first one the mapping does not hold raises KeyError, an
\* invalid one raises ValueError
Substitute(t, mapping) ==
    LET failing == {j \in 1..Len(t) :
                       /\ t[j][1] = "$"
                       /\ (t[j] = InvalidPlaceholder \/ t[j][2] \notin DOMAIN mapping)}
        first == CHOOSE j \in failing : \A k \in failing : j <= k
    IN  IF failing = {}
        THEN [err |-> "none",
              text |-> [j \in 1..Len(t) |->
                          IF t[j][1] = "$" THEN mapping[t[j][2]] ELSE t[j]]]
        ELSE [err |-> IF t[first] = InvalidPlaceholder THEN "ValueError" ELSE "KeyError",
              text |-> <<>>]

\* the outcomes of open(config_file, 'w') and f.write: both succeed, open
\* fails, or write fails on the opened (and so truncated) file
WriteOutcome == {"ok", "OSError", "OSError-partial"}

\* create_config_file(config_file, template, env_config) on the file system
\* g, with the outcome w of open/write: the three keys are read from
\* env_config, the template is substituted with these three, the file is
\* opened for writing (which truncates it and does not create its
\* directory) and written.  OSError and KeyError are caught, ValueError is
\* not.  The result, whether an exception escaped, the calls made on the
\* file with their success, and the file system.
create_config_file(g, template, env_config, w) ==
    IF ~(Keys \subseteq DOMAIN env_config)
    THEN [res |-> FALSE, raised |-> FALSE, ops |-> <<>>, fs |-> g]
    ELSE LET s == Substitute(template, [k \in Keys |-> env_config[k]]) IN
         CASE s.err = "ValueError" ->
                [res |-> FALSE, raised |-> TRUE, ops |-> <<>>, fs |-> g]
           [] s.err = "KeyError" ->
                [res |-> FALSE, raised |-> FALSE, ops |-> <<>>, fs |-> g]
           [] s.err = "none" /\ (ConfigDir \notin g.dirs \/ w = "OSError") ->
                [res |-> FALSE, raised |-> FALSE, ops |-> << <<"open", FALSE>> >>,
                 fs |-> g]
           [] s.err = "none" /\ ConfigDir \in g.dirs /\ w = "OSError-partial" ->
                [res |-> FALSE, raised |-> FALSE,
                 ops |-> << <<"open", TRUE>>, <<"write", FALSE>> >>,
                 fs |-> [g EXCEPT !.files[ConfigFile] = File(<<>>)]]
           [] s.err = "none" /\ ConfigDir \in g.dirs /\ w = "ok" ->
                [res |-> TRUE, raised |-> FALSE,
                 ops |-> << <<"open", TRUE>>, <<"write", TRUE>> >>,
                 fs |-> [g EXCEPT !.files[ConfigFile] = File(s.text)]]

\* the outcomes of open/write the call consults: none before the file is
\* opened, none where its directory is missing
WriteConsulted(g, template, env_config, w) ==
    \/ w = "ok"
    \/ /\ ConfigDir \in g.dirs
       /\ create_config_file(g, template, env_config, w).ops # <<>>

\* Step 1: create_config_directory (os.makedirs, OSError caught)
octodns_create_config_directory ==
    /\ pc = "octo_1"
    /\ \E o \in FsOutcome :
         /\ trace' = Append(trace, Act("octodns", 1, 1, 1, "makedirs", o = "ok"))
         /\ fs' = Provision(fs, ConfigDir, <<"makedirs">>, o = "ok",
                            OctodnsOwner, OctodnsMode)
         /\ IfNotReturnFalse("octodns", 1, o = "ok", "octo_2")
    /\ lastCmd' = NoCmd
    /\ UNCHANGED <<entry, args, params, i, ok, started, bindVars, clock>>

\* Step 2: set_directory_ownership (chown; only SubprocessError is caught)
octodns_set_directory_ownership ==
    /\ pc = "octo_2"
    /\ \E o \in CmdOutcome :
         /\ trace' = Append(trace, Act("octodns", 2, 1, 1, "chown", Good(o)))
         /\ lastCmd' = Cmd("chown", o, Classify(o))
         /\ fs' = Provision(fs, ConfigDir, <<"chown">>, Good(o), OctodnsOwner, OctodnsMode)
         /\ IF Classify(o) = "raise"
            THEN Raise("octodns")
            ELSE IfNotReturnFalse("octodns", 2, Classify(o) = "success", "octo_3")
    /\ UNCHANGED <<entry, args, params, i, ok, started, bindVars, clock>>

\* Step 3: set_directory_permissions (os.chmod(mode), then os.stat and
\* os.chmod(mode | S_ISGID); OSError caught)
octodns_set_directory_permissions ==
    /\ pc = "octo_3"
    /\ \E o1 \in FsOutcome, o2 \in FsOutcome :
         /\ trace' = trace \o <<Act("octodns", 3, 1, 1, "chmod", o1 = "ok")>>
                       \o (IF o1 = "ok" THEN <<Act("octodns", 3, 1, 2, "chmod sgid", o2 = "ok")>>
                           ELSE <<>>)
         /\ fs' = Provision(fs, ConfigDir,
                            IF o1 = "ok" THEN <<"chmod", "chmod sgid">> ELSE <<"chmod">>,
                            o1 = "ok" /\ o2 = "ok", OctodnsOwner, OctodnsMode)
         /\ IfNotReturnFalse("octodns", 3, o1 = "ok" /\ o2 = "ok", "octo_4")
    /\ lastCmd' = NoCmd
    /\ UNCHANGED <<entry, args, params, i, ok, started, bindVars, clock>>

\* Step 4: create_config_file(config_file, template, env_config)
octodns_create_config_file ==
    /\ pc = "octo_4"
    /\ \E w \in WriteOutcome :
         LET r == create_config_file(fs, params.template, params.env_config, w) IN
         /\ WriteConsulted(fs, params.template, params.env_config, w)
         /\ fs' = r.fs
         /\ trace' = trace \o [j \in 1..Len(r.ops) |->
                                 Act("octodns", 4, 1, j, r.ops[j][1], r.ops[j][2])]
         /\ IF r.raised
            THEN Raise("octodns")
            ELSE IfNotReturnFalse("octodns", 4, r.res, "return")
    /\ lastCmd' = NoCmd
    /\ UNCHANGED <<entry, args, params, i, ok, started, bindVars, clock>>

\* create_config_file called on its own
create_config_file_call ==
    /\ pc = "create_config_file"
    /\ \E w \in WriteOutcome :
         LET r == create_config_file(fs, params.template, params.env_config, w) IN
         /\ WriteConsulted(fs, params.template, params.env_config, w)
         /\ fs' = r.fs
         /\ trace' = trace \o [j \in 1..Len(r.ops) |->
                                 Act("create_config_file", 1, 1, j, r.ops[j][1],
                                     r.ops[j][2])]
         /\ ret' = [ret EXCEPT !["create_config_file"] =
                       IF r.raised THEN "raised" ELSE IF r.res THEN "true" ELSE "false"]
    /\ pc' = "done"
    /\ lastCmd' = NoCmd
    /\ UNCHANGED <<entry, args, params, i, ok, success, exitCode, started, results,
                   bindVars, clock>>

----------------------------------------------------------------------------
(* modules/bind_install.py: files, directories and the clock *)

\* datetime.now().strftime("%Y%m%d_%H%M%S"): the time cut to whole seconds
Timestamp(t) == t \div TicksPerSecond

Pkgs == 1..MaxPkgs
EtcDirs == 1..MaxEtcDirs
Managed == 1..MaxManaged
NamedFiles == {<<"named", k>> : k \in 1..MaxNamedFiles}
\* the configuration source tree as os.walk yields it: directory 0 is the
\* root and holds named.conf.acl, every sub-directory d holds one file
ConfDirs == 0..MaxSubDirs
ConfFiles == {<<"conf", d>> : d \in ConfDirs}
DnsFiles == NamedFiles \cup ConfFiles

\* os.path.basename of a file.  The files of the sub-directories all carry
\* the same name, as zone files of zones/forward and zones/reverse may.
BaseName(f) ==
    IF f[1] = "named" THEN <<"named.ca", f[2]>>
    ELSE IF f[2] = 0 THEN <<"named.conf.acl", 0>>
    ELSE <<"db.zone", 0>>

\* content of the source file copied to f, and of f before the run
SrcContent(f) ==
    IF f = <<"conf", 0>> THEN << <<"acl", "conf", 0>>, IpPlaceholder >>
    ELSE << <<"new", f[1], f[2]>> >>
OldContent(f) == << <<"old", f[1], f[2]>> >>
PartialContent(f) == << <<"partial", f[1], f[2]>> >>

\* directories: <<"etc", k>> the k-th entry of etc_directories under
\* chroot_etc (the first one is "backups"), <<"managed", k>> the k-th entry
\* of managed_directories, <<"sub", d>> the d-th sub-directory of chroot_etc
\* the configuration tree is copied to
BackupDir == <<"etc", 1>>
ChrootEtc == <<"chroot_etc", 0>>
DestNamed == <<"dest_named", 0>>

\* str.replace('$ip', ip_address) of update_acl_file
ReplaceIp(content, ip) ==
    [k \in DOMAIN content |->
        IF content[k] = IpPlaceholder THEN <<ip, "", 0>> ELSE content[k]]

\* the function b with key k set to v
Put(b, k, v) == [x \in (DOMAIN b) \cup {k} |-> IF x = k THEN v ELSE b[x]]

\* outcomes of shutil.copy2: done, refused before the destination was
\* touched, or failed after the destination was opened for writing
CopyOutcome == {"ok", "OSError", "OSError-partial"}

\* outcomes of update_acl_file: done, open/read failed, write failed after
\* the file was truncated
AclOutcome == {"ok", "IOError-read", "IOError-write"}

\* backup_file(file_path, backup_dir) on the filesystem g at time t: mk is
\* the outcome of os.makedirs(backup_dir), cp of shutil.copy2 (done, or
\* refused with nothing written).  The result and the filesystem it leaves.
backup_file(g, f, t, mk, cp) ==
    IF ~g.files[f].exists
    THEN [res |-> TRUE, fs |-> g, acts |-> <<>>]
    ELSE LET key == <<BaseName(f)[1], BaseName(f)[2], Timestamp(t)>>
             g1 == IF BackupDir \in g.dirs THEN g
                   ELSE [g EXCEPT !.dirs = @ \cup {BackupDir}]
         IN  IF BackupDir \notin g.dirs /\ mk # "ok"
             THEN [res |-> FALSE, fs |-> g, acts |-> << <<"makedirs backup_dir", FALSE>> >>]
             ELSE [res |-> (cp = "ok"),
                   fs |-> IF cp = "ok"
                          THEN [g1 EXCEPT !.backups = Put(@, key, g.files[f].content)]
                          ELSE g1,
                   acts |-> (IF BackupDir \in g.dirs THEN <<>>
                             ELSE << <<"makedirs backup_dir", TRUE>> >>)
                               \o << <<"copy2 backup", cp = "ok">> >>]

\* update_acl_file(file_path, ip_address): every IOError is logged and
\* swallowed
update_acl_file(g, f, ip, a) ==
    CASE a = "ok" -> [g EXCEPT !.files[f] = File(ReplaceIp(@.content, ip))]
      [] a = "IOError-read" -> g
      [] a = "IOError-write" -> [g EXCEPT !.files[f] = File(<<>>)]

\* a copy loop that overwrites the destination although its backup failed
CopyOne_IgnoreBackup(g, f, ip, t, mk, bk, cp, a) ==
    LET b == backup_file(g, f, t, mk, bk)
    IN  [res |-> b.res /\ cp = "ok",
         fs |-> IF cp = "ok"
                THEN [b.fs EXCEPT !.files[f] = File(SrcContent(f))]
                ELSE b.fs,
         acts |-> b.acts \o << <<"copy2", cp = "ok">> >>,
         backed |-> g.files[f].exists /\ b.res]

\* one iteration of the copy loops of copy_named_files and copy_config_files
\* for the destination file f: backup of an existing destination ("skipping
\* copy" when it fails), shutil.copy2, and for named.conf.acl of a primary
\* install update_acl_file.  ip is the primary_ip handed to copy_config_files
\* (None otherwise).
CopyOne(g, f, ip, t, mk, bk, cp, a) ==
    LET b == backup_file(g, f, t, mk, bk)
        isAcl == Truthy(ip) /\ BaseName(f) = <<"named.conf.acl", 0>>
        copied == [b.fs EXCEPT !.files[f] = File(SrcContent(f))]
    IN  IF g.files[f].exists /\ ~b.res
        THEN [res |-> FALSE, fs |-> b.fs, acts |-> b.acts, backed |-> FALSE]
        ELSE CASE cp = "ok" ->
                    [res |-> TRUE,
                     fs |-> IF isAcl THEN update_acl_file(copied, f, ip, a) ELSE copied,
                     acts |-> b.acts \o << <<"copy2", TRUE>> >>
                                 \o (IF isAcl THEN << <<"update_acl_file", a = "ok">> >>
                                     ELSE <<>>),
                     backed |-> g.files[f].exists]
               [] cp = "OSError" ->
                    [res |-> FALSE, fs |-> b.fs, acts |-> b.acts \o << <<"copy2", FALSE>> >>,
                     backed |-> g.files[f].exists]
               [] cp = "OSError-partial" ->
                    [res |-> FALSE,
                     fs |-> [b.fs EXCEPT !.files[f] = File(PartialContent(f))],
                     acts |-> b.acts \o << <<"copy2", FALSE>> >>,
                     backed |-> g.files[f].exists]

\* the outcomes drawn for an iteration that the iteration consults: a call
\* that is not made has no outcome (it is fixed to "ok", the clock to now)
Relevant(g, f, ip, t, mk, bk, cp, a) ==
    LET exists == g.files[f].exists
        backedUp == exists /\ (BackupDir \in g.dirs \/ mk = "ok") /\ bk = "ok"
    IN  /\ (~exists => t = clock /\ mk = "ok" /\ bk = "ok")
        /\ (exists /\ BackupDir \in g.dirs => mk = "ok")
        /\ (exists /\ BackupDir \notin g.dirs /\ mk # "ok" => bk = "ok")
        /\ (exists /\ ~backedUp => cp = "ok")
        /\ (~(Truthy(ip) /\ BaseName(f) = <<"named.conf.acl", 0>> /\ cp = "ok")
               => a = "ok")

\* what is remembered of an iteration: the file, its state before, whether
\* it was backed up and under which timestamp, and whether it was copied
CopyRecord(f, g, r, t) ==
    [file |-> f, before |-> g.files[f], backed |-> r.backed, res |-> r.res,
     ts |-> IF g.files[f].exists THEN Timestamp(t) ELSE -1]

\* the place of an operation inside one iteration of a copy loop
SubOf(op) ==
    CASE op = "makedirs backup_dir" -> 1
      [] op = "copy2 backup" -> 2
      [] op = "copy2" -> 3
      [] op = "update_acl_file" -> 4

\* the spy entries of the operations ops performed on item k of step s
Acts(fn, s, k, ops) ==
    [j \in 1..Len(ops) |-> Act(fn, s, k, SubOf(ops[j][1]), ops[j][1], ops[j][2])]

----------------------------------------------------------------------------
(* modules/bind_install.py: install_dns and its steps *)

\* run_command: the command's result, True for exit code 0; an OSError of
\* subprocess.run is not caught
run_command(o) == Classify(o)

\* the validation at the head of install_dns
install_dns_validate ==
    /\ pc = "dns_validate"
    /\ IF (~Truthy(params.primary_ip) /\ ~Truthy(params.secondary_ip))
          \/ (Truthy(params.primary_ip) /\ Truthy(params.secondary_ip))
       THEN /\ ModuleEnd("dns", "false")
            /\ UNCHANGED <<i, missing>>
       ELSE /\ pc' = "dns_1_rpm"
            /\ i' = 1
            /\ missing' = <<>>
            /\ UNCHANGED <<ret, success, exitCode>>
    /\ lastCmd' = NoCmd
    /\ UNCHANGED <<entry, args, params, ok, started, trace, results, dnfCommand, found,
                   copies, fs, clock>>

\* a check that reports every package as missing
Missing_All(m, package, o) == Append(m, package)

\* check_packages_installed, one package: "if result.returncode != 0:
\* missing.append(package)", and the same on SubprocessError
Missing(m, package, o) ==
    IF o.kind = "exit" /\ o.code = 0 THEN m ELSE Append(m, package)

\* Step 1, check_packages_installed: "rpm -q <package>" for package i; a
\* non-zero exit code or a SubprocessError counts the package as missing
check_packages_installed ==
    /\ pc = "dns_1_rpm"
    /\ \E o \in CmdOutcome :
         /\ trace' = Append(trace, Act("dns", 1, i, 1, "rpm -q", Good(o)))
         /\ lastCmd' = Cmd("rpm -q", o, Classify(o))
         /\ IF o.kind = "OSError"
            THEN /\ Raise("dns")
                 /\ UNCHANGED <<i, missing>>
            ELSE /\ missing' = Missing(missing, i, o)
                 /\ IF i = MaxPkgs
                    THEN pc' = "dns_1_dnf" /\ i' = i
                    ELSE pc' = pc /\ i' = i + 1
                 /\ UNCHANGED <<ret, success, exitCode, results>>
    /\ UNCHANGED <<entry, args, params, ok, started, dnfCommand, found, copies, fs,
                   clock>>

\* Step 1, install_bind_packages after the check: nothing to do when no
\* package is missing, else "dnf install -y <missing>" through run_command
install_bind_packages ==
    /\ pc = "dns_1_dnf"
    /\ IF missing = <<>>
       THEN /\ trace' = trace
            /\ lastCmd' = NoCmd
            /\ dnfCommand' = dnfCommand
            /\ IfNotReturnFalse("dns", 1, TRUE, "dns_2")
       ELSE \E o \in CmdOutcome :
              /\ trace' = Append(trace, Act("dns", 1, MaxPkgs + 1, 1, "dnf install", Good(o)))
              /\ lastCmd' = Cmd("dnf install", o, run_command(o))
              /\ dnfCommand' = missing
              /\ IF run_command(o) = "raise"
                 THEN Raise("dns")
                 ELSE IfNotReturnFalse("dns", 1, run_command(o) = "success", "dns_2")
    /\ i' = 1
    /\ ok' = TRUE
    /\ UNCHANGED <<entry, args, params, started, missing, found, copies, fs, clock>>

\* Step 2, create_directories: os.makedirs of entry i of etc_directories; a
\* failure is logged and the loop goes on
create_directories ==
    /\ pc = "dns_2"
    /\ \E o \in FsOutcome :
         /\ trace' = Append(trace, Act("dns", 2, i, 1, "makedirs", o = "ok"))
         /\ fs' = IF o = "ok"
                  THEN [fs EXCEPT !.dirs = @ \cup {ChrootEtc, <<"etc", i>>}]
                  ELSE fs
         /\ BatchItem("dns", 2, o = "ok", MaxEtcDirs, "dns_3")
    /\ lastCmd' = NoCmd
    /\ UNCHANGED <<entry, args, params, started, bindVars, clock>>

\* Step 3, create_log_directory: os.makedirs(chroot_log)
bind_create_log_directory ==
    /\ pc = "dns_3"
    /\ \E o \in FsOutcome :
         /\ trace' = Append(trace, Act("dns", 3, 1, 1, "makedirs", o = "ok"))
         /\ fs' = IF o = "ok" THEN [fs EXCEPT !.dirs = @ \cup {<<"chroot_log", 0>>}]
                  ELSE fs
         /\ IfNotReturnFalse("dns", 3, o = "ok", "dns_4")
    /\ lastCmd' = NoCmd
    /\ UNCHANGED <<entry, args, params, i, ok, started, bindVars, clock>>

\* Step 4: os.makedirs(dest_named_files/dynamic) inside install_dns
install_dns_dynamic_dir ==
    /\ pc = "dns_4"
    /\ \E o \in FsOutcome :
         /\ trace' = Append(trace, Act("dns", 4, 1, 1, "makedirs", o = "ok"))
         /\ fs' = IF o = "ok"
                  THEN [fs EXCEPT !.dirs = @ \cup {DestNamed, <<"dynamic", 0>>}]
                  ELSE fs
         /\ IfNotReturnFalse("dns", 4, o = "ok", "dns_5_glob")
    /\ lastCmd' = NoCmd
    /\ UNCHANGED <<entry, args, params, i, ok, started, bindVars, clock>>

\* Step 5, copy_named_files up to its loop: the glob (it finds no file, or
\* the named.* files), and the creation of a missing destination directory
copy_named_files_glob ==
    /\ pc = "dns_5_glob"
    /\ \E named_files \in {0, MaxNamedFiles}, o \in FsOutcome :
         /\ found' = named_files
         /\ IF named_files = 0
            THEN /\ IfNotReturnFalse("dns", 5, TRUE, "dns_6_src")
                 /\ UNCHANGED <<trace, fs>>
            ELSE IF DestNamed \in fs.dirs
            THEN /\ pc' = "dns_5"
                 /\ UNCHANGED <<trace, fs, ret, success, exitCode, results>>
            ELSE /\ trace' = Append(trace, Act("dns", 5, 0, 1, "makedirs", o = "ok"))
                 /\ IF o = "ok"
                    THEN /\ fs' = [fs EXCEPT !.dirs = @ \cup {DestNamed}]
                         /\ pc' = "dns_5"
                         /\ UNCHANGED <<ret, success, exitCode, results>>
                    ELSE /\ fs' = fs
                         /\ IfNotReturnFalse("dns", 5, FALSE, "dns_6_src")
    /\ i' = 1
    /\ ok' = TRUE
    /\ lastCmd' = NoCmd
    /\ UNCHANGED <<entry, args, params, started, missing, dnfCommand, copies, clock>>

\* Step 5, copy_named_files: the loop iteration for named file i
copy_named_files ==
    /\ pc = "dns_5"
    /\ \E t \in {clock, clock + 1} \cap (0..MaxTick),
          mk \in FsOutcome, bk \in FsOutcome, cp \in CopyOutcome :
         LET f == <<"named", i>>
             r == CopyOne(fs, f, None, t, mk, bk, cp, "ok")
         IN  /\ Relevant(fs, f, None, t, mk, bk, cp, "ok")
             /\ clock' = IF fs.files[f].exists THEN t ELSE clock
             /\ fs' = r.fs
             /\ trace' = trace \o Acts("dns", 5, i, r.acts)
             /\ copies' = Append(copies, CopyRecord(f, fs, r, t))
             /\ BatchItem("dns", 5, r.res, found, "dns_6_src")
    /\ lastCmd' = NoCmd
    /\ UNCHANGED <<entry, args, params, started, missing, dnfCommand, found>>

\* Step 6 up to the loop of copy_config_files: the source directory is
\* <configs_path>/<primary_config_dir> or <configs_path>/<secondary_ip>;
\* install_dns (secondary) and copy_config_files return False when it does
\* not exist
copy_config_files_source ==
    /\ pc = "dns_6_src"
    /\ \E source_exists \in BOOLEAN :
         IF source_exists
         THEN /\ pc' = "dns_6"
              /\ UNCHANGED <<ret, success, exitCode, results>>
         ELSE IfNotReturnFalse("dns", 6, FALSE, "dns_6")
    /\ i' = 0
    /\ ok' = TRUE
    /\ lastCmd' = NoCmd
    /\ UNCHANGED <<entry, args, params, started, trace, bindVars, fs, clock>>

\* Step 6, copy_config_files: the iteration of os.walk for directory i of the
\* source tree: the destination directory is created when missing (on
\* failure the directory is skipped), then its file is copied
copy_config_files ==
    /\ pc = "dns_6"
    /\ \E t \in {clock, clock + 1} \cap (0..MaxTick), md \in FsOutcome,
          mk \in FsOutcome, bk \in FsOutcome, cp \in CopyOutcome, a \in AclOutcome :
         LET f == <<"conf", i>>
             current_dest == IF i = 0 THEN ChrootEtc ELSE <<"sub", i>>
             ip == IF Truthy(params.primary_ip) THEN params.primary_ip ELSE None
             g == [fs EXCEPT !.dirs = @ \cup {current_dest}]
             r == CopyOne(g, f, ip, t, mk, bk, cp, a)
         IN  IF current_dest \notin fs.dirs /\ md # "ok"
             THEN /\ t = clock /\ mk = "ok" /\ bk = "ok" /\ cp = "ok" /\ a = "ok"
                  /\ trace' = Append(trace, Act("dns", 6, i, 0, "makedirs", FALSE))
                  /\ BatchItem("dns", 6, FALSE, MaxSubDirs, "dns_7")
                  /\ UNCHANGED <<fs, clock, copies>>
             ELSE /\ (current_dest \in fs.dirs => md = "ok")
                  /\ Relevant(g, f, ip, t, mk, bk, cp, a)
                  /\ trace' = trace
                       \o (IF current_dest \notin fs.dirs
                           THEN <<Act("dns", 6, i, 0, "makedirs", TRUE)>> ELSE <<>>)
                       \o Acts("dns", 6, i, r.acts)
                  /\ clock' = IF fs.files[f].exists THEN t ELSE clock
                  /\ fs' = r.fs
                  /\ copies' = Append(copies, CopyRecord(f, fs, r, t))
                  /\ BatchItem("dns", 6, r.res, MaxSubDirs, "dns_7")
    /\ lastCmd' = NoCmd
    /\ UNCHANGED <<entry, args, params, started, missing, dnfCommand, found>>

\* Step 7, add_user_to_group("netbox", bind_group): "usermod -a -G"; a
\* failure is logged as a warning by install_dns
add_user_to_group ==
    /\ pc = "dns_7"
    /\ \E o \in CmdOutcome :
         /\ trace' = Append(trace, Act("dns", 7, 1, 1, "usermod", Good(o)))
         /\ lastCmd' = Cmd("usermod", o, run_command(o))
         /\ IF run_command(o) = "raise"
            THEN Raise("dns")
            ELSE IfNotWarn("dns", 7, run_command(o) = "success", "dns_8")
    /\ i' = 1
    /\ ok' = TRUE
    /\ UNCHANGED <<entry, args, params, started, bindVars, fs, clock>>

\* Step 8, set_ownership: "chown -R user:group" on managed directory i when
\* it exists
set_ownership ==
    /\ pc = "dns_8"
    /\ IF <<"managed", i>> \in fs.dirs
       THEN \E o \in CmdOutcome :
              /\ trace' = Append(trace, Act("dns", 8, i, 1, "chown -R", Good(o)))
              /\ lastCmd' = Cmd("chown -R", o, run_command(o))
              /\ IF run_command(o) = "raise"
                 THEN Raise("dns") /\ UNCHANGED <<i, ok>>
                 ELSE BatchItem("dns", 8, run_command(o) = "success", MaxManaged, "dns_9")
       ELSE /\ trace' = trace
            /\ lastCmd' = NoCmd
            /\ BatchItem("dns", 8, TRUE, MaxManaged, "dns_9")
    /\ UNCHANGED <<entry, args, params, started, bindVars, fs, clock>>

\* Step 9, set_permissions: os.chmod(directory, mode) on managed directory i
\* when it exists
set_permissions ==
    /\ pc = "dns_9"
    /\ IF <<"managed", i>> \in fs.dirs
       THEN \E o \in FsOutcome :
              /\ trace' = Append(trace, Act("dns", 9, i, 1, "chmod", o = "ok"))
              /\ BatchItem("dns", 9, o = "ok", MaxManaged, "dns_10")
       ELSE /\ trace' = trace
            /\ BatchItem("dns", 9, TRUE, MaxManaged, "dns_10")
    /\ lastCmd' = NoCmd
    /\ UNCHANGED <<entry, args, params, started, bindVars, fs, clock>>

\* Step 10, set_sgid: os.stat and os.chmod(mode | S_ISGID) on managed
\* directory i when it exists
set_sgid ==
    /\ pc = "dns_10"
    /\ IF <<"managed", i>> \in fs.dirs
       THEN \E o \in FsOutcome :
              /\ trace' = Append(trace, Act("dns", 10, i, 1, "chmod sgid", o = "ok"))
              /\ BatchItem("dns", 10, o = "ok", MaxManaged, "dns_11_enable")
       ELSE /\ trace' = trace
            /\ BatchItem("dns", 10, TRUE, MaxManaged, "dns_11_enable")
    /\ lastCmd' = NoCmd
    /\ UNCHANGED <<entry, args, params, started, bindVars, fs, clock>>

\* Step 11, enable_and_start_service: "systemctl enable"
enable_service ==
    /\ pc = "dns_11_enable"
    /\ \E o \in CmdOutcome :
         /\ trace' = Append(trace, Act("dns", 11, 1, 1, "systemctl enable", Good(o)))
         /\ lastCmd' = Cmd("systemctl enable", o, run_command(o))
         /\ CASE run_command(o) = "raise" -> Raise("dns")
              [] run_command(o) = "failure" -> IfNotReturnFalse("dns", 11, FALSE, "return")
              [] run_command(o) = "success" ->
                   /\ pc' = "dns_11_start"
                   /\ UNCHANGED <<ret, success, exitCode, results>>
    /\ UNCHANGED <<entry, args, params, i, ok, started, bindVars, fs, clock>>

\* Step 11, enable_and_start_service: "systemctl start"; after it install_dns
\* returns True
start_service ==
    /\ pc = "dns_11_start"
    /\ \E o \in CmdOutcome :
         /\ trace' = Append(trace, Act("dns", 11, 1, 2, "systemctl start", Good(o)))
         /\ lastCmd' = Cmd("systemctl start", o, run_command(o))
         /\ IF run_command(o) = "raise"
            THEN Raise("dns")
            ELSE IfNotReturnFalse("dns", 11, run_command(o) = "success", "return")
    /\ UNCHANGED <<entry, args, params, i, ok, started, bindVars, fs, clock>>

----------------------------------------------------------------------------
(* modules/ipdns_install.py: install_ipdns and its steps *)

\* config.NETBOX_SERVICES, and the hard-coded start_order of start_services
NETBOX_SERVICES == <<"netbox", "netbox-rqworker@1", "netbox.socket">>
start_order == <<"netbox.socket", "netbox", "netbox-rqworker@1">>

InSeq(x, q) == \E k \in 1..Len(q) : q[k] = x

PluginsPath == <<"plugins_path", 0>>
TargetDir == <<"netbox-ipdns", 0>>
LogDir == <<"log_dir", 0>>
LogFile == <<"log_file", 0>>
SharedDir == <<"shared_dir", 0>>
LogsSubdir == <<"shared_dir/logs", 0>>

\* create_shared_directory with os.chmod(mode) before "chown"
create_shared_directory_ChmodFirst(mk, o, c1, c2) ==
    IF mk # "ok"
    THEN [res |-> FALSE, ops |-> <<"makedirs">>, cmd |-> NoCmd]
    ELSE IF c1 # "ok"
    THEN [res |-> FALSE, ops |-> <<"makedirs", "chmod">>, cmd |-> NoCmd]
    ELSE IF ~(o.kind = "exit" /\ o.code = 0)
    THEN [res |-> FALSE, ops |-> <<"makedirs", "chmod", "chown">>,
          cmd |-> Cmd("chown", o, "failure")]
    ELSE [res |-> (c2 = "ok"), ops |-> <<"makedirs", "chmod", "chown", "chmod sgid">>,
          cmd |-> Cmd("chown", o, "success")]

\* create_shared_directory: os.makedirs, "chown user:group", os.chmod(mode),
\* os.stat and os.chmod(mode | S_ISGID).  OSError and SubprocessError are
\* both caught.  The operations performed, the result, and the command.
create_shared_directory(mk, o, c1, c2) ==
    IF mk # "ok"
    THEN [res |-> FALSE, ops |-> <<"makedirs">>, cmd |-> NoCmd]
    ELSE IF ~(o.kind = "exit" /\ o.code = 0)
    THEN [res |-> FALSE, ops |-> <<"makedirs", "chown">>,
          cmd |-> Cmd("chown", o, "failure")]
    ELSE IF c1 # "ok"
    THEN [res |-> FALSE, ops |-> <<"makedirs", "chown", "chmod">>,
          cmd |-> Cmd("chown", o, "success")]
    ELSE [res |-> (c2 = "ok"), ops |-> <<"makedirs", "chown", "chmod", "chmod sgid">>,
          cmd |-> Cmd("chown", o, "success")]

\* the place of an operation inside create_log_directory
SubOfLog(op) ==
    CASE op = "makedirs" -> 1
      [] op = "chown" -> 2
      [] op = "chmod" -> 3
      [] op = "chmod sgid" -> 4

\* the spy entries of the calls ops of step s, the last of which failed
\* unless res
OpsActs(fn, s, ops, res) ==
    [j \in 1..Len(ops) |-> Act(fn, s, 1, j, ops[j], j < Len(ops) \/ res)]

\* a step of install_ipdns that calls create_shared_directory on directory d
SharedDirectoryStep(step, d, next) ==
    \E mk \in FsOutcome, o \in CmdOutcome, c1 \in FsOutcome, c2 \in FsOutcome :
      LET r == create_shared_directory(mk, o, c1, c2) IN
      /\ trace' = trace \o OpsActs("ipdns", step, r.ops, r.res)
      /\ lastCmd' = r.cmd
      /\ fs' = Provision(fs, d, r.ops, r.res, IpdnsOwner, IpdnsMode)
      /\ IfNotReturnFalse("ipdns", step, r.res, next)

\* a step of install_ipdns that runs one external command through a wrapper
\* catching SubprocessError only (run_migrations, run_collectstatic,
\* reload_systemd, set_directory_ownership, pip_install_plugin, git clone)
CommandStep(step, name, next) ==
    \E o \in CmdOutcome :
      /\ trace' = Append(trace, Act("ipdns", step, 1, 1, name, Good(o)))
      /\ lastCmd' = Cmd(name, o, Classify(o))
      /\ IF Classify(o) = "raise"
         THEN Raise("ipdns")
         ELSE IfNotReturnFalse("ipdns", step, Classify(o) = "success", next)

\* a step of install_ipdns made of filesystem calls only, with OSError
\* caught: ops are the calls in order, k the number of them that succeed
FileStep(step, ops, next) ==
    \E k \in 0..Len(ops) :
      /\ trace' = trace \o OpsActs("ipdns", step,
                                   SubSeq(ops, 1, IF k = Len(ops) THEN k ELSE k + 1),
                                   k = Len(ops))
      /\ lastCmd' = NoCmd
      /\ IfNotReturnFalse("ipdns", step, k = Len(ops), next)

\* "if not os.path.exists(plugins_path): create_shared_directory(...)"
ipdns_create_plugins_directory ==
    /\ pc = "ipdns_1"
    /\ IF PluginsPath \notin fs.dirs
       THEN SharedDirectoryStep(1, PluginsPath, "ipdns_2")
       ELSE /\ pc' = "ipdns_2"
            /\ lastCmd' = NoCmd
            /\ UNCHANGED <<trace, fs, ret, success, exitCode, results>>
    /\ i' = 1
    /\ UNCHANGED <<entry, args, params, ok, started, bindVars, clock>>

\* stop_services: "systemctl stop" of service i; a non-zero exit code is
\* logged as a warning and the loop goes on, a SubprocessError returns False
stop_services ==
    /\ pc = "ipdns_2"
    /\ \E o \in CmdOutcome :
         /\ trace' = Append(trace, Act("ipdns", 2, i, 1, "systemctl stop", Good(o)))
         /\ lastCmd' = Cmd("systemctl stop", o,
                           CASE o.kind = "exit" -> "success"
                             [] o.kind = "SubprocessError" -> "failure"
                             [] o.kind = "OSError" -> "raise")
         /\ CASE o.kind = "OSError" -> Raise("ipdns") /\ i' = i
              [] o.kind = "SubprocessError" ->
                   IfNotReturnFalse("ipdns", 2, FALSE, "ipdns_3") /\ i' = i
              [] o.kind = "exit" ->
                   IF i = Len(params.services)
                   THEN IfNotReturnFalse("ipdns", 2, TRUE, "ipdns_3") /\ i' = 1
                   ELSE /\ i' = i + 1
                        /\ UNCHANGED <<pc, ret, success, exitCode, results>>
    /\ UNCHANGED <<entry, args, params, ok, started, bindVars, fs, clock>>

ipdns_create_shared_directory ==
    /\ pc = "ipdns_3"
    /\ SharedDirectoryStep(3, SharedDir, "ipdns_4")
    /\ UNCHANGED <<entry, args, params, i, ok, started, bindVars, clock>>

ipdns_create_logs_subdirectory ==
    /\ pc = "ipdns_4"
    /\ SharedDirectoryStep(4, LogsSubdir, "ipdns_5")
    /\ UNCHANGED <<entry, args, params, i, ok, started, bindVars, clock>>

\* create_log_directory up to the log file: os.makedirs when the directory
\* is missing, "chown", os.chmod(mode), os.chmod(mode | S_ISGID)
ipdns_create_log_directory ==
    /\ pc = "ipdns_5"
    /\ \E mk \in FsOutcome, o \in CmdOutcome, c1 \in FsOutcome, c2 \in FsOutcome :
         LET r == create_shared_directory(mk, o, c1, c2)
             ops == IF LogDir \in fs.dirs THEN Tail(r.ops) ELSE r.ops
         IN  /\ (LogDir \in fs.dirs => mk = "ok")
             /\ trace' = trace \o [j \in 1..Len(ops) |->
                                     Act("ipdns", 5, 1, SubOfLog(ops[j]), ops[j],
                                         j < Len(ops) \/ r.res)]
             /\ lastCmd' = r.cmd
             /\ fs' = Provision(fs, LogDir, ops, r.res, IpdnsOwner, IpdnsMode)
             /\ IF r.res
                THEN /\ pc' = "ipdns_5_file"
                     /\ UNCHANGED <<ret, success, exitCode, results>>
                ELSE IfNotReturnFalse("ipdns", 5, FALSE, "ipdns_6")
    /\ UNCHANGED <<entry, args, params, i, ok, started, bindVars, clock>>

\* a log file opened with mode 'w' whether or not it exists
create_log_file_Truncate(f, w) == IF w = "ok" THEN File(<<>>) ELSE f

\* "if not os.path.exists(log_file): with open(log_file, 'w') as f: pass":
\* the log file f after it, w the outcome of open
create_log_file(f, w) == IF w = "ok" /\ ~f.exists THEN File(<<>>) ELSE f

\* create_log_directory, the log file: created empty when missing, then
\* "chown" of the file
ipdns_create_log_file ==
    /\ pc = "ipdns_5_file"
    /\ \E w \in FsOutcome, o \in CmdOutcome :
         /\ (fs.files[LogFile].exists => w = "ok")
         /\ trace' = trace
               \o (IF fs.files[LogFile].exists THEN <<>>
                   ELSE <<Act("ipdns", 5, 1, 5, "create log file", w = "ok")>>)
               \o (IF w = "ok" THEN <<Act("ipdns", 5, 1, 6, "chown log file", Good(o))>>
                   ELSE <<>>)
         /\ lastCmd' = IF w = "ok"
                       THEN Cmd("chown", o, IF o.kind = "exit" /\ o.code = 0
                                            THEN "success" ELSE "failure")
                       ELSE NoCmd
         /\ fs' = [fs EXCEPT !.files[LogFile] = create_log_file(@, w)]
         /\ IfNotReturnFalse("ipdns", 5, w = "ok" /\ o.kind = "exit" /\ o.code = 0,
                             "ipdns_6")
    /\ UNCHANGED <<entry, args, params, i, ok, started, bindVars, clock>>

\* a clone step without its check of the target directory
clone_repository_Always ==
    /\ pc = "ipdns_6"
    /\ CommandStep(6, "git clone", "ipdns_7")
    /\ fs' = IF lastCmd'.verdict = "success"
             THEN [fs EXCEPT !.dirs = @ \cup {TargetDir}] ELSE fs
    /\ UNCHANGED <<entry, args, params, i, ok, started, bindVars, clock>>

\* clone_repository: skipped when the target directory exists, else
\* "git clone"
clone_repository ==
    /\ pc = "ipdns_6"
    /\ IF TargetDir \in fs.dirs
       THEN /\ trace' = trace
            /\ lastCmd' = NoCmd
            /\ fs' = fs
            /\ IfNotReturnFalse("ipdns", 6, TRUE, "ipdns_7")
       ELSE /\ CommandStep(6, "git clone", "ipdns_7")
            /\ fs' = IF lastCmd'.verdict = "success"
                     THEN [fs EXCEPT !.dirs = @ \cup {TargetDir}] ELSE fs
    /\ UNCHANGED <<entry, args, params, i, ok, started, bindVars, clock>>

ipdns_set_directory_ownership ==
    /\ pc = "ipdns_7"
    /\ CommandStep(7, "chown -R", "ipdns_8")
    /\ UNCHANGED <<entry, args, params, i, ok, started, bindVars, fs, clock>>

pip_install_plugin ==
    /\ pc = "ipdns_8"
    /\ CommandStep(8, "pip install -e", "ipdns_9")
    /\ UNCHANGED <<entry, args, params, i, ok, started, bindVars, fs, clock>>

\* copy_global_variables: False when the example file is missing, else
\* shutil.copy2
copy_global_variables ==
    /\ pc = "ipdns_9"
    /\ \E example_exists \in BOOLEAN :
         IF example_exists
         THEN FileStep(9, <<"copy2">>, "ipdns_10")
         ELSE /\ trace' = trace
              /\ lastCmd' = NoCmd
              /\ IfNotReturnFalse("ipdns", 9, FALSE, "ipdns_10")
    /\ UNCHANGED <<entry, args, params, i, ok, started, bindVars, fs, clock>>

\* configure_global_variables: read, substitute, write back
configure_global_variables ==
    /\ pc = "ipdns_10"
    /\ FileStep(10, <<"read", "write">>, "ipdns_11")
    /\ UNCHANGED <<entry, args, params, i, ok, started, bindVars, fs, clock>>

\* create_service_override(netbox_override_dir, ...): os.makedirs, write
create_netbox_service_override ==
    /\ pc = "ipdns_11"
    /\ FileStep(11, <<"makedirs", "write">>, "ipdns_12")
    /\ UNCHANGED <<entry, args, params, i, ok, started, bindVars, fs, clock>>

\* create_service_override(rqworker_override_dir, ...)
create_rqworker_service_override ==
    /\ pc = "ipdns_12"
    /\ FileStep(12, <<"makedirs", "write">>, "ipdns_13")
    /\ UNCHANGED <<entry, args, params, i, ok, started, bindVars, fs, clock>>

reload_systemd ==
    /\ pc = "ipdns_13"
    /\ CommandStep(13, "systemctl daemon-reload", "ipdns_14")
    /\ UNCHANGED <<entry, args, params, i, ok, started, bindVars, fs, clock>>

\* create_sudoers_file: write, os.chmod(0o440)
create_sudoers_file ==
    /\ pc = "ipdns_14"
    /\ FileStep(14, <<"write", "chmod">>, "ipdns_15")
    /\ UNCHANGED <<entry, args, params, i, ok, started, bindVars, fs, clock>>

\* update_netbox_configuration: read, substitute, write back
update_netbox_configuration ==
    /\ pc = "ipdns_15"
    /\ FileStep(15, <<"read", "write">>, "ipdns_16")
    /\ UNCHANGED <<entry, args, params, i, ok, started, bindVars, fs, clock>>

run_migrations ==
    /\ pc = "ipdns_16"
    /\ CommandStep(16, "manage.py migrate", "ipdns_17")
    /\ UNCHANGED <<entry, args, params, i, ok, started, bindVars, fs, clock>>

run_collectstatic ==
    /\ pc = "ipdns_17"
    /\ CommandStep(17, "manage.py collectstatic", "ipdns_18")
    /\ i' = 1
    /\ UNCHANGED <<entry, args, params, ok, started, bindVars, fs, clock>>

\* start_services: for entry i of start_order, "systemctl start" when the
\* service is in the list given; the first failure returns False
start_services ==
    /\ pc = "ipdns_18"
    /\ IF InSeq(start_order[i], params.services)
       THEN \E o \in CmdOutcome :
              /\ trace' = Append(trace, Act("ipdns", 18, i, 1, "systemctl start", Good(o)))
              /\ lastCmd' = Cmd("systemctl start", o, Classify(o))
              /\ CASE Classify(o) = "raise" -> Raise("ipdns") /\ i' = i
                   [] Classify(o) = "failure" ->
                        IfNotReturnFalse("ipdns", 18, FALSE, "return") /\ i' = i
                   [] Classify(o) = "success" ->
                        IF i = Len(start_order)
                        THEN IfNotReturnFalse("ipdns", 18, TRUE, "return") /\ i' = i
                        ELSE /\ i' = i + 1
                             /\ UNCHANGED <<pc, ret, success, exitCode, results>>
       ELSE /\ trace' = trace
            /\ lastCmd' = NoCmd
            /\ IF i = Len(start_order)
               THEN IfNotReturnFalse("ipdns", 18, TRUE, "return") /\ i' = i
               ELSE /\ i' = i + 1
                    /\ UNCHANGED <<pc, ret, success, exitCode, results>>
    /\ UNCHANGED <<entry, args, params, ok, started, bindVars, fs, clock>>

----------------------------------------------------------------------------
(* start_services called on its own *)

\* the lists a caller may pass: config.NETBOX_SERVICES, a part of it, a list
\* with a service start_order does not name, and the empty list
ServiceLists ==
    {NETBOX_SERVICES, <<"netbox">>, <<"netbox", "netbox-rqworker@2">>, <<>>}

\* start_services(services): for entry i of start_order, "systemctl start"
\* when the service is in services; the first failure returns False
start_services_call ==
    /\ pc = "start_services"
    /\ IF InSeq(start_order[i], params.services)
       THEN \E o \in CmdOutcome :
              /\ trace' = Append(trace, Act("start_services", 1, i, 1,
                                            "systemctl start", Good(o)))
              /\ lastCmd' = Cmd("systemctl start", o, Classify(o))
              /\ CASE Classify(o) = "raise" ->
                        /\ ret' = [ret EXCEPT !["start_services"] = "raised"]
                        /\ pc' = "done" /\ i' = i
                   [] Classify(o) = "failure" ->
                        /\ ret' = [ret EXCEPT !["start_services"] = "false"]
                        /\ pc' = "done" /\ i' = i
                   [] Classify(o) = "success" ->
                        IF i = Len(start_order)
                        THEN /\ ret' = [ret EXCEPT !["start_services"] = "true"]
                             /\ pc' = "done" /\ i' = i
                        ELSE /\ i' = i + 1
                             /\ UNCHANGED <<pc, ret>>
       ELSE /\ trace' = trace
            /\ lastCmd' = NoCmd
            /\ IF i = Len(start_order)
               THEN /\ ret' = [ret EXCEPT !["start_services"] = "true"]
                    /\ pc' = "done" /\ i' = i
               ELSE /\ i' = i + 1
                    /\ UNCHANGED <<pc, ret>>
    /\ UNCHANGED <<entry, args, params, ok, success, exitCode, started, results,
                   bindVars, fs, clock>>

----------------------------------------------------------------------------
(* create_shared_directory called on its own, once and then once more with
   the same arguments *)

create_shared_directory_call ==
    /\ pc = "create_shared_directory"
    /\ \E mk \in FsOutcome, o \in CmdOutcome, c1 \in FsOutcome, c2 \in FsOutcome :
         LET r == create_shared_directory(mk, o, c1, c2) IN
         /\ trace' = trace \o OpsActs("create_shared_directory", i, r.ops, r.res)
         /\ lastCmd' = r.cmd
         /\ fs' = Provision(fs, SharedDir, r.ops, r.res, params.owner, params.mode)
         /\ ret' = [ret EXCEPT !["create_shared_directory"] =
                       IF r.res THEN "true" ELSE "false"]
    /\ i' = i + 1
    /\ pc' = IF i = 1 THEN "create_shared_directory" ELSE "done"
    /\ UNCHANGED <<entry, args, params, ok, success, exitCode, started, results,
                   bindVars, clock>>

----------------------------------------------------------------------------
(* backup_file called on its own *)

backup_file_call ==
    /\ pc = "backup_file"
    /\ \E t \in {clock, clock + 1} \cap (0..MaxTick), mk \in FsOutcome,
          cp \in FsOutcome :
         LET r == backup_file(fs, params.target, t, mk, cp) IN
         /\ fs' = r.fs
         /\ clock' = IF fs.files[params.target].exists THEN t ELSE clock
         /\ trace' = trace \o Acts("backup_file", 1, 1, r.acts)
         /\ ret' = [ret EXCEPT !["backup_file"] = IF r.res THEN "true" ELSE "false"]
    /\ pc' = "done"
    /\ lastCmd' = NoCmd
    /\ UNCHANGED <<entry, args, params, i, ok, success, exitCode, started, results,
                   bindVars>>

----------------------------------------------------------------------------
(* Initial states *)

Fns ==
    ModuleSet \cup {"backup_file", "create_config_file", "create_shared_directory",
                    "start_services"}
ProvisionedDirs == {ConfigDir, PluginsPath, SharedDir, LogsSubdir, LogDir}
AllFiles == DnsFiles \cup {LogFile, ConfigFile}

NoParams ==
    [primary_ip |-> None, secondary_ip |-> None, target |-> <<"conf", 0>>,
     template |-> <<>>, env_config |-> EnvConfig({}), owner |-> None, mode |-> None,
     services |-> NETBOX_SERVICES]
EmptyFs ==
    [files |-> [f \in AllFiles |-> Absent], backups |-> <<>>, dirs |-> {},
     attrs |-> [d \in ProvisionedDirs |-> NoAttrs]]

\* what a directory found on the host may look like: set up by someone
\* else, with or without the SGID bit, or as the plugin installation leaves
\* it
ForeignAttrs == [owner |-> "root:root", mode |-> "0o700", sgid |-> FALSE]
HostAttrs ==
    {ForeignAttrs,
     [owner |-> "root:root", mode |-> "0o775", sgid |-> TRUE],
     [owner |-> IpdnsOwner, mode |-> IpdnsMode, sgid |-> TRUE]}

\* what every run starts with, whatever its entry
InitCommon ==
    /\ i = 1
    /\ ok = TRUE
    /\ success = TRUE
    /\ exitCode = -1
    /\ started = <<>>
    /\ ret = [m \in Fns |-> "none"]
    /\ trace = <<>>
    /\ results = <<>>
    /\ lastCmd = NoCmd
    /\ missing = <<>>
    /\ dnfCommand = <<>>
    /\ found = 0
    /\ copies = <<>>
    /\ clock = 0

\* python3 install.py <command line>
InitMain ==
    /\ entry = "main"
    /\ args \in ArgSpace
    /\ params = NoParams
    /\ pc = "parse"
    /\ fs = EmptyFs
    /\ InitCommon

\* the template and the mapping of a caller
OctodnsParams ==
    [primary_ip : {None}, secondary_ip : {None}, target : {<<"conf", 0>>},
     template : Templates, env_config : EnvConfigs, owner : {None}, mode : {None},
                   services : {NETBOX_SERVICES}]

\* the hosts the OctoDNS functions may find: the configuration directory
\* may exist, set up by someone else or as install_octodns leaves it, and
\* the configuration file in it
OctodnsHosts ==
    {[files |-> [f \in AllFiles |->
                    IF f = ConfigFile /\ file
                    THEN File(<<Lit("old config.yaml")>>) ELSE Absent],
      backups |-> <<>>,
      dirs |-> IF dir \/ file THEN {ConfigDir} ELSE {},
      attrs |-> [d \in ProvisionedDirs |->
                   IF d = ConfigDir /\ (dir \/ file) THEN a ELSE NoAttrs]] :
        dir \in BOOLEAN, file \in BOOLEAN,
        a \in {ForeignAttrs, [owner |-> OctodnsOwner, mode |-> OctodnsMode, sgid |-> TRUE]}}

\* install_octodns(...) called with the parameters run_octodns_install uses
\* or with a template / mapping of the caller's
InitOctodns ==
    /\ entry = "install_octodns"
    /\ args = NoArgs
    /\ params \in OctodnsParams
    /\ pc = "octo_1"
    /\ fs \in OctodnsHosts
    /\ InitCommon

\* create_config_file(config_file, template, env_config)
InitCreateConfigFile ==
    /\ entry = "create_config_file"
    /\ args = NoArgs
    /\ params \in OctodnsParams
    /\ pc = "create_config_file"
    /\ fs \in OctodnsHosts
    /\ InitCommon

\* the hosts install_dns may find: a host where the named.* files were
\* deployed before or not, where the configuration tree was deployed before
\* or not (its sub-directories may exist without it), and where the managed
\* directories exist, all or all but the first
DnsHosts ==
    {[files |-> [f \in AllFiles |->
                    IF (f \in NamedFiles /\ named) \/ (f \in ConfFiles /\ conf)
                    THEN File(OldContent(f)) ELSE Absent],
      backups |-> <<>>,
      dirs |-> {<<"managed", k>> : k \in (IF allManaged THEN 1 ELSE 2)..MaxManaged}
                 \cup (IF subs \/ conf THEN {<<"sub", d>> : d \in 1..MaxSubDirs} ELSE {}),
      attrs |-> [d \in ProvisionedDirs |-> NoAttrs]] :
        named \in BOOLEAN, conf \in BOOLEAN, allManaged \in BOOLEAN, subs \in BOOLEAN}

\* install_dns(..., primary_ip, secondary_ip)
InitDns ==
    /\ entry = "install_dns"
    /\ args = NoArgs
    /\ params \in [primary_ip : {None, ServerIp}, secondary_ip : {None, SecondaryIp},
                   target : {<<"conf", 0>>}, template : {<<>>},
                   env_config : {EnvConfig({})}, owner : {None}, mode : {None},
                   services : {NETBOX_SERVICES}]
    /\ pc = "dns_validate"
    /\ fs \in DnsHosts
    /\ InitCommon

\* install_ipdns(...): the plugins directory, the clone target, the log
\* directory and the log file may exist
InitIpdns ==
    /\ entry = "install_ipdns"
    /\ args = NoArgs
    /\ params = NoParams
    /\ pc = "ipdns_1"
    /\ \E plugins \in BOOLEAN, target \in BOOLEAN, logdir \in BOOLEAN, logfile \in BOOLEAN :
         /\ target => plugins
         /\ logfile => logdir
         /\ fs = [files |-> [f \in AllFiles |->
                               IF f = LogFile /\ logfile
                               THEN File(<< <<"log", "old", 0>> >>) ELSE Absent],
                  backups |-> <<>>,
                  dirs |-> (IF plugins THEN {PluginsPath} ELSE {})
                             \cup (IF target THEN {TargetDir} ELSE {})
                             \cup (IF logdir THEN {LogDir} ELSE {}),
                  attrs |-> [d \in ProvisionedDirs |->
                               IF (d = PluginsPath /\ plugins) \/ (d = LogDir /\ logdir)
                               THEN ForeignAttrs ELSE NoAttrs]]
    /\ InitCommon

\* backup_file(file_path, backup_dir)
InitBackup ==
    /\ entry = "backup_file"
    /\ args = NoArgs
    /\ params \in [primary_ip : {None}, secondary_ip : {None}, target : DnsFiles,
                   template : {<<>>}, env_config : {EnvConfig({})},
                   owner : {None}, mode : {None},
                   services : {NETBOX_SERVICES}]
    /\ pc = "backup_file"
    /\ \E exists \in BOOLEAN, dir \in BOOLEAN :
         fs = [files |-> [f \in AllFiles |->
                            IF f = params.target /\ exists
                            THEN File(OldContent(f)) ELSE Absent],
               backups |-> <<>>,
               dirs |-> IF dir THEN {BackupDir} ELSE {},
               attrs |-> [d \in ProvisionedDirs |-> NoAttrs]]
    /\ InitCommon

\* create_shared_directory(shared_dir, user, group, mode), called twice:
\* the directory may exist
InitCreateSharedDirectory ==
    /\ entry = "create_shared_directory"
    /\ args = NoArgs
    /\ params \in [primary_ip : {None}, secondary_ip : {None}, target : {<<"conf", 0>>},
                   template : {<<>>}, env_config : {EnvConfig({})},
                   owner : {IpdnsOwner, OctodnsOwner}, mode : {IpdnsMode, "0o775"},
                   services : {NETBOX_SERVICES}]
    /\ pc = "create_shared_directory"
    /\ \E a \in HostAttrs \cup {NoAttrs} :
         fs = [EmptyFs EXCEPT !.dirs = IF a = NoAttrs THEN {} ELSE {SharedDir},
                              !.attrs[SharedDir] = a]
    /\ InitCommon

\* start_services(services)
InitStartServices ==
    /\ entry = "start_services"
    /\ args = NoArgs
    /\ params \in [primary_ip : {None}, secondary_ip : {None}, target : {<<"conf", 0>>},
                   template : {<<>>}, env_config : {EnvConfig({})},
                   owner : {None}, mode : {None}, services : ServiceLists]
    /\ pc = "start_services"
    /\ fs = EmptyFs
    /\ InitCommon

Init ==
    \/ InitMain
    \/ InitOctodns
    \/ InitCreateConfigFile
    \/ InitDns
    \/ InitIpdns
    \/ InitCreateSharedDirectory
    \/ InitStartServices
    \/ InitBackup

Next ==
    \/ parse_arguments
    \/ main_run_pip
    \/ main_run_dns
    \/ main_run_octodns
    \/ main_run_ipdns
    \/ main_exit
    \/ octodns_create_config_directory
    \/ octodns_set_directory_ownership
    \/ octodns_set_directory_permissions
    \/ octodns_create_config_file
    \/ create_config_file_call
    \/ create_shared_directory_call
    \/ start_services_call
    \/ install_dns_validate
    \/ check_packages_installed
    \/ install_bind_packages
    \/ create_directories
    \/ bind_create_log_directory
    \/ install_dns_dynamic_dir
    \/ copy_named_files_glob
    \/ copy_named_files
    \/ copy_config_files_source
    \/ copy_config_files
    \/ add_user_to_group
    \/ set_ownership
    \/ set_permissions
    \/ set_sgid
    \/ enable_service
    \/ start_service
    \/ ipdns_create_plugins_directory
    \/ stop_services
    \/ ipdns_create_shared_directory
    \/ ipdns_create_logs_subdirectory
    \/ ipdns_create_log_directory
    \/ ipdns_create_log_file
    \/ clone_repository
    \/ ipdns_set_directory_ownership
    \/ pip_install_plugin
    \/ copy_global_variables
    \/ configure_global_variables
    \/ create_netbox_service_override
    \/ create_rqworker_service_override
    \/ reload_systemd
    \/ create_sudoers_file
    \/ update_netbox_configuration
    \/ run_migrations
    \/ run_collectstatic
    \/ start_services
    \/ backup_file_call

Spec == Init /\ [][Next]_vars

----------------------------------------------------------------------------
(* Properties *)

\* the spy entries of function fn
ActsOf(fn) == {j \in 1..Len(trace) : trace[j].fn = fn}

\* step k of results reported failure, no later step of the same function
\* has acted, and the function has returned False
ShortCircuited(k) ==
    /\ ret[results[k].fn] = "false"
    /\ \A j \in ActsOf(results[k].fn) : trace[j].step <= results[k].step

\* C1 as stated: in install_dns, install_octodns and install_ipdns, whenever
\* any step i reports failure, no action of a later step is executed and the
\* function returns False.
C1_ShortCircuitEveryStep ==
    \A k \in 1..Len(results) : ~results[k].res => ShortCircuited(k)

\* the best-effort step: Step 7 of install_dns (add_user_to_group)
BestEffort(r) == r.fn = "dns" /\ r.step = 7

\* C1 amended: whenever a step other than the best-effort Step 7 of
\* install_dns reports failure, no action of a later step is executed and the
\* function returns False.
C1_ShortCircuit ==
    \A k \in 1..Len(results) :
        ~results[k].res /\ ~BestEffort(results[k]) => ShortCircuited(k)

\* C1, a run where it matters: Step 7 of install_dns failed, Step 8 ran and
\* failed in its turn, and install_dns returned False there
C1_Witness ==
    /\ pc = "done"
    /\ ret["dns"] = "false"
    /\ \E k \in 1..Len(results) :
          /\ results[k] = [fn |-> "dns", step |-> 7, res |-> FALSE]
          /\ k + 1 = Len(results)
          /\ results[k + 1] = [fn |-> "dns", step |-> 8, res |-> FALSE]
    /\ \E j \in ActsOf("dns") : trace[j].step = 8

\* the place of a spy entry in the text of its function: the step, the item
\* of the step's list, the operation inside the item
Before(a, b) ==
    \/ a.step < b.step
    \/ a.step = b.step /\ a.item < b.item
    \/ a.step = b.step /\ a.item = b.item /\ a.sub < b.sub

\* C2: in every run of install_dns, install_octodns and install_ipdns the
\* step actions execute in the order the function is written in, and no
\* action (a command or file operation on a given target) is invoked twice,
\* also after it failed: of two spy entries of a function, the earlier one
\* stands strictly earlier in the function.
C2_DeclaredOrderNoRetry ==
    \A j \in 1..Len(trace), k \in 1..Len(trace) :
        j < k /\ trace[j].fn = trace[k].fn => Before(trace[j], trace[k])

\* C2, a run where it matters: set_ownership failed on a managed directory,
\* every managed directory was attempted once, and install_dns returned
\* False from Step 8
C2_Witness ==
    /\ pc = "done"
    /\ ret["dns"] = "false"
    /\ results # <<>>
    /\ results[Len(results)] = [fn |-> "dns", step |-> 8, res |-> FALSE]
    /\ lastCmd.verdict = "success"
    /\ {trace[j].item : j \in {x \in ActsOf("dns") : trace[x].step = 8}} = 1..MaxManaged
    /\ Cardinality({x \in ActsOf("dns") : trace[x].step = 8}) = MaxManaged

\* the modules the command line requests, in the order main runs them
RequestedModules == SelectSeq(Modules, LAMBDA m : Requested(args, m))

\* main has ended on a command line parse_arguments accepted
MainEnded == entry = "main" /\ pc = "done" /\ ParserError(args) = "none"

\* C3 as stated: every module requested on the command line is executed
\* exactly once, in the order pip packages, DNS, OctoDNS, ipdns; the failure
\* of one requested module never prevents the later ones from being executed.
C3_EveryRequestedModuleRuns ==
    MainEnded => started = RequestedModules

\* C4 as stated: main exits with a non-zero code if and only if at least one
\* requested module reported failure, and with code 0 when every requested
\* module reported success.
C4_ExitCodeReflectsOutcome ==
    MainEnded =>
        /\ exitCode # 0 <=>
              \E m \in ModuleSet : Requested(args, m) /\ ret[m] = "false"
        /\ (\A m \in ModuleSet : Requested(args, m) => ret[m] = "true")
              => exitCode = 0

\* C5 as stated: a command line carrying both --primary and --secondary <IP>
\* starts no module and changes nothing, whatever module flags accompany
\* them; install_dns called with both primary_ip and secondary_ip returns
\* False before its Step 1.
C5_BothRolesRejected ==
    /\ entry = "main" /\ args.primary /\ Truthy(args.secondary)
          => started = <<>> /\ trace = <<>> /\ fs = EmptyFs
    /\ entry = "install_dns" /\ Truthy(params.primary_ip) /\ Truthy(params.secondary_ip)
          => /\ pc \in {"dns_validate", "done"}
             /\ trace = <<>> /\ results = <<>>
             /\ pc = "done" => ret["dns"] = "false"

\* the command line requests DNS without a role, or selects no module
MissingRoleOrModule(a) ==
    \/ (a.dns \/ a.all) /\ ~a.primary /\ ~Truthy(a.secondary)
    \/ ~a.pip_packages /\ ~a.dns /\ ~a.octodns /\ ~a.ipdns /\ ~a.all

\* C6: a command line that requests DNS (--dns or --all) with neither
\* --primary nor --secondary, or that selects no module, is rejected by
\* parse_arguments (exit code 2): no module, pip packages included, is
\* started and no step acts.
C6_PreconditionFailure ==
    entry = "main" /\ MissingRoleOrModule(args) =>
        /\ pc \in {"parse", "done"}
        /\ started = <<>> /\ trace = <<>> /\ results = <<>> /\ fs = EmptyFs
        /\ \A m \in ModuleSet : ret[m] = "none"
        /\ pc = "done" => exitCode = 2

\* C6, a run where it matters: --pip-packages --dns without a role has been
\* rejected
C6_Witness ==
    /\ entry = "main" /\ pc = "done" /\ exitCode = 2
    /\ args.pip_packages /\ args.dns /\ ~args.primary /\ args.secondary = None
    /\ started = <<>>

\* the step returns True without acting and the function goes on at next
SkippedAndGoesOn(fn, step, next) ==
    /\ trace' = trace
    /\ fs' = fs
    /\ results' = Append(results, [fn |-> fn, step |-> step, res |-> TRUE])
    /\ pc' = next
    /\ ret' = ret

\* C7: when every BIND package is already installed install_bind_packages
\* invokes no dnf install, and when the clone target directory already exists
\* clone_repository invokes no git clone; in both cases the step returns True
\* and the function goes on with the following step.
C7_AlreadySatisfied ==
    [][/\ pc = "dns_1_dnf" /\ missing = <<>>
            => SkippedAndGoesOn("dns", 1, "dns_2")
       /\ pc = "ipdns_6" /\ TargetDir \in fs.dirs
            => SkippedAndGoesOn("ipdns", 6, "ipdns_7")]_vars

\* C7, a run where it matters: every package was found installed, Step 1 of
\* install_dns returned True, no dnf install was invoked and Step 2 has acted
C7_Witness ==
    /\ missing = <<>>
    /\ results # <<>>
    /\ results[1] = [fn |-> "dns", step |-> 1, res |-> TRUE]
    /\ \A j \in ActsOf("dns") : trace[j].op # "dnf install"
    /\ Cardinality({j \in ActsOf("dns") : trace[j].op = "rpm -q"}) = MaxPkgs
    /\ \E j \in ActsOf("dns") : trace[j].step = 2

\* C8 as stated: for every external command invoked through run_command,
\* install_packages or a subprocess wrapper of the ipdns module, the result
\* is True exactly when the exit code is 0 and False for every other exit
\* code, and a non-zero exit code raises nothing.  (The rpm query of
\* check_packages_installed yields a list, not a result.)
C8_ExitCodeClassification ==
    lastCmd.kind = "exit" /\ lastCmd.cmd # "rpm -q"
        => lastCmd.verdict = IF lastCmd.code = 0 THEN "success" ELSE "failure"

\* the backup path <backup_dir>/<basename>.<timestamp> of a copy record
BackupPath(c) == <<BaseName(c.file)[1], BaseName(c.file)[2], c.ts>>

\* the copy records of the destinations that existed and were overwritten
Overwritten == {k \in 1..Len(copies) : copies[k].before.exists /\ copies[k].res}

\* C9 as stated, for the backup: whenever copy_named_files or
\* copy_config_files succeeds in overwriting a destination file that existed
\* before the call, a file <basename>.<YYYYMMDD_HHMMSS> exists in the backup
\* directory and holds the destination's original content.
C9_BackupHoldsOriginal ==
    \A k \in Overwritten :
        /\ BackupPath(copies[k]) \in DOMAIN fs.backups
        /\ fs.backups[BackupPath(copies[k])] = copies[k].before.content

\* the step of install_dns that copies file f
CopyStep(f) == IF f[1] = "named" THEN 5 ELSE 6

\* the copy records of the existing destinations whose backup failed
BackupFailed == {k \in 1..Len(copies) : copies[k].before.exists /\ ~copies[k].backed}

\* C10: if backup_file returns False for an existing destination file, the
\* file keeps its original content and the enclosing copy step returns
\* False; backup_file called on a file that does not exist returns True and
\* creates neither a backup file nor the backup directory.
C10_BackupFailureAbortsOverwrite ==
    /\ \A k \in BackupFailed :
          /\ ~copies[k].res
          /\ fs.files[copies[k].file] = copies[k].before
          /\ \A r \in 1..Len(results) :
                results[r].fn = "dns" /\ results[r].step = CopyStep(copies[k].file)
                    => ~results[r].res /\ ret["dns"] = "false"
    /\ entry = "backup_file" /\ ~fs.files[params.target].exists
          => /\ trace = <<>>
             /\ DOMAIN fs.backups = {}
             /\ pc = "done" => ret["backup_file"] = "true"

\* C10, a run where it matters: the backup of the existing named.conf.acl
\* failed, the files after it were still copied, and copy_config_files made
\* install_dns return False at Step 6
C10_Witness ==
    /\ pc = "done"
    /\ ret["dns"] = "false"
    /\ results # <<>>
    /\ results[Len(results)] = [fn |-> "dns", step |-> 6, res |-> FALSE]
    /\ \E k \in BackupFailed : copies[k].file = <<"conf", 0>>
    /\ \E k \in Overwritten : copies[k].file = <<"conf", MaxSubDirs>>

----------------------------------------------------------------------------
(* create_config_file *)

\* a step that is one call of create_config_file
CreateConfigFileCalled == create_config_file_call \/ octodns_create_config_file

\* the call of this step returned b
CreateConfigFileReturned(b) ==
    IF pc = "create_config_file"
    THEN ret'["create_config_file"] = (IF b THEN "true" ELSE "false")
    ELSE /\ Len(results') = Len(results) + 1
         /\ results'[Len(results')] = [fn |-> "octodns", step |-> 4, res |-> b]

\* every "$" of the template starts a placeholder
WellFormed(t) == \A j \in 1..Len(t) : t[j] # InvalidPlaceholder

\* the template with every placeholder replaced by its value in mapping
Materialized(t, mapping) ==
    [j \in 1..Len(t) |-> IF t[j][1] = "$" THEN mapping[t[j][2]] ELSE t[j]]

\* open or write failed in this step although the directory of the file
\* exists
WriteFault ==
    /\ ConfigDir \in fs.dirs
    /\ \E j \in (Len(trace) + 1)..Len(trace') : ~trace'[j].good

MissingValue ==
    \/ ~(Keys \subseteq DOMAIN params.env_config)
    \/ ~(PlaceholdersOf(params.template) \subseteq Keys)

\* C12: if the template references a placeholder for which no value is
\* supplied, create_config_file returns False and the destination file is
\* neither created nor modified.
C12_FailureIsAtomic ==
    [][(CreateConfigFileCalled /\ WellFormed(params.template) /\ MissingValue)
         => /\ CreateConfigFileReturned(FALSE)
            /\ fs' = fs
            /\ trace' = trace]_vars

\* C12, a call where it matters: the template names $zone_name, the mapping
\* holds the three keys, and the older config.yaml is still in place
C12_Witness ==
    /\ entry = "create_config_file"
    /\ pc = "done"
    /\ ret["create_config_file"] = "false"
    /\ "zone_name" \in PlaceholdersOf(params.template)
    /\ Keys \subseteq DOMAIN params.env_config
    /\ fs.files[ConfigFile] = File(<<Lit("old config.yaml")>>)
    /\ trace = <<>>

----------------------------------------------------------------------------
(* Provisioning of directories *)

\* the directory a spy entry provisions, None for the other entries:
\* Steps 1 to 3 of install_octodns, the create_shared_directory and
\* create_log_directory steps of install_ipdns, and the items of Steps 8 to
\* 10 of install_dns
ProvisionedDir(a) ==
    CASE a.fn = "octodns" /\ a.step \in 1..3 -> ConfigDir
      [] a.fn = "ipdns" /\ a.step = 1 -> PluginsPath
      [] a.fn = "ipdns" /\ a.step = 3 -> SharedDir
      [] a.fn = "ipdns" /\ a.step = 4 -> LogsSubdir
      [] a.fn = "ipdns" /\ a.step = 5 /\ a.sub <= 4 -> LogDir
      [] a.fn = "dns" /\ a.step \in 8..10 -> <<"managed", a.item>>
      [] OTHER -> None

\* the place of a sub-step in the order create, chown, chmod, SGID
ProvisionRank(op) ==
    CASE op = "makedirs" -> 1
      [] op \in {"chown", "chown -R"} -> 2
      [] op = "chmod" -> 3
      [] op = "chmod sgid" -> 4

Provisions == {j \in 1..Len(trace) : ProvisionedDir(trace[j]) # None}

\* C13: on every provisioned directory, chown, chmod and SGID are applied
\* only to a directory that exists, the sub-steps run in the order create,
\* chown, chmod, SGID, no sub-step follows a failed one on the same
\* directory, and a failed sub-step keeps the function from returning True.
C13_ProvisioningOrder ==
    \A j \in Provisions :
        /\ (ProvisionRank(trace[j].op) > 1 \/ trace[j].good)
              => ProvisionedDir(trace[j]) \in fs.dirs
        /\ ~trace[j].good => ret[trace[j].fn] # "true"
        /\ \A k \in Provisions :
              (j < k /\ ProvisionedDir(trace[j]) = ProvisionedDir(trace[k]))
                  => /\ trace[j].good
                     /\ ProvisionRank(trace[j].op) < ProvisionRank(trace[k].op)

\* C13, a run where it matters: install_ipdns provisioned the shared
\* directory with all four sub-steps, chmod failed on its logs
\* sub-directory after create and chown, no SGID followed, and install_ipdns
\* returned False
C13_Witness ==
    /\ pc = "done"
    /\ ret["ipdns"] = "false"
    /\ \E j \in Provisions :
          /\ trace[j].step = 3 /\ trace[j].op = "chmod sgid" /\ trace[j].good
    /\ Len(trace) > 0
    /\ trace[Len(trace)].step = 4
    /\ trace[Len(trace)].op = "chmod"
    /\ ~trace[Len(trace)].good

\* the owner, mode and SGID bit a successful provisioning leaves
ProvisionedAttrs(owner, mode) == [owner |-> owner, mode |-> mode, sgid |-> TRUE]

\* C14: provisioning a directory that a run with the same arguments has
\* provisioned leaves owner, group, mode and SGID bit as they were, the
\* requested owner and mode with SGID set, and reports success:
\* create_shared_directory called a second time, with every call of it
\* succeeding, and Steps 1 to 3 of install_octodns on any directory found,
\* the one a previous run left included.
C14_ProvisioningIdempotent ==
    /\ []((\E r \in 1..Len(results) :
              results[r] = [fn |-> "octodns", step |-> 3, res |-> TRUE])
            => /\ ConfigDir \in fs.dirs
               /\ fs.attrs[ConfigDir] = ProvisionedAttrs(OctodnsOwner, OctodnsMode))
    /\ [][(/\ create_shared_directory_call
            /\ i = 2
            /\ ret["create_shared_directory"] = "true"
            /\ \A j \in (Len(trace) + 1)..Len(trace') : trace'[j].good)
             => /\ ret'["create_shared_directory"] = "true"
                /\ fs.attrs[SharedDir] = ProvisionedAttrs(params.owner, params.mode)
                /\ fs'.attrs = fs.attrs
                /\ fs'.dirs = fs.dirs]_vars

\* C14, a run where it matters: create_shared_directory ran twice with
\* mode 0o775, all eight calls succeeded, and the directory has the
\* requested owner and mode with SGID set
C14_Witness ==
    /\ entry = "create_shared_directory"
    /\ pc = "done"
    /\ ret["create_shared_directory"] = "true"
    /\ Len(trace) = 8
    /\ \A j \in 1..Len(trace) : trace[j].good
    /\ params.mode = "0o775"
    /\ fs.attrs[SharedDir] = ProvisionedAttrs(params.owner, "0o775")

----------------------------------------------------------------------------
(* install_dns, Step 7 *)

\* the results install_dns got after its result k
LaterDnsResults(k) == {n \in (k + 1)..Len(results) : results[n].fn = "dns"}

\* C15: when add_user_to_group (Step 7 of install_dns) reports failure,
\* install_dns does not return there: Step 8 is next, install_dns returns
\* False only where one of Steps 8 to 11 fails, and it returns True when
\* Steps 8 to 11 all succeed.
C15_BestEffortStep ==
    \A k \in 1..Len(results) :
        results[k] = [fn |-> "dns", step |-> 7, res |-> FALSE]
            => /\ LaterDnsResults(k) = {}
                    => /\ ret["dns"] \in {"none", "raised"}
                       /\ ret["dns"] = "none" => pc = "dns_8"
               /\ ret["dns"] = "false"
                    => \E n \in LaterDnsResults(k) :
                          results[n].step \in 8..11 /\ ~results[n].res
               /\ (\A st \in 8..11 : \E n \in LaterDnsResults(k) :
                       results[n].step = st /\ results[n].res)
                    => ret["dns"] = "true"

\* C15, a run where it matters: usermod failed in Step 7, Steps 8 to 11 ran
\* and succeeded, the service was started and install_dns returned True
C15_Witness ==
    /\ ret["dns"] = "true"
    /\ \E k \in 1..Len(results) :
          /\ results[k] = [fn |-> "dns", step |-> 7, res |-> FALSE]
          /\ \A st \in 8..11 : \E n \in LaterDnsResults(k) :
                results[n].step = st /\ results[n].res
    /\ \E j \in 1..Len(trace) :
          /\ trace[j].fn = "dns" /\ trace[j].step = 7 /\ ~trace[j].good
    /\ \E j \in 1..Len(trace) :
          /\ trace[j].fn = "dns" /\ trace[j].op = "systemctl start" /\ trace[j].good

----------------------------------------------------------------------------
(* Errors that do not reach the result *)

\* the calls whose failure the claim allows for: the best-effort usermod of
\* Step 7 of install_dns, and the "rpm -q" queries, whose exit code is the
\* answer to the query
MayFail(a) ==
    \/ a.fn = "dns" /\ a.step = 7
    \/ a.fn = "dns" /\ a.op = "rpm -q"

\* C16 as stated: in every run in which install_dns or install_ipdns returns
\* True, every external command returned exit code 0 and every file
\* operation succeeded, the best-effort add-user-to-group command excepted.
C16_NoErrorSwallowed ==
    \A fn \in {"dns", "ipdns"} :
        ret[fn] = "true"
            => \A j \in ActsOf(fn) : trace[j].good \/ MayFail(trace[j])

----------------------------------------------------------------------------
(* The wrappers of install.py *)

\* C17 as stated: whenever main has requested the DNS or the ipdns module,
\* the wrapper has called install_dns or install_ipdns with every required
\* parameter, and once the wrapper is over it has returned True or False and
\* the steps of the module have run.
C17_WrappersReturnOutcome ==
    entry = "main"
        => /\ InSeq("dns", started) => Binds(InstallDnsRequired, RunDnsInstallPassed)
           /\ InSeq("ipdns", started) => Binds(InstallIpdnsRequired, RunIpdnsInstallPassed)
           /\ \A m \in {"dns", "ipdns"} :
                 ret[m] # "none"
                     => /\ ret[m] \in {"true", "false"}
                        /\ \E k \in 1..Len(results) : results[k].fn = m

----------------------------------------------------------------------------
(* install_ipdns and the NetBox services *)

\* C18 as stated: every call install_ipdns makes other than "systemctl
\* stop" comes after stop_services has stopped a service.
C18_StopBeforeChanges ==
    \A j \in ActsOf("ipdns") :
        trace[j].step # 2
            => \E k \in ActsOf("ipdns") : k < j /\ trace[k].step = 2

\* the "systemctl stop" calls of stop_services
Stops == {j \in ActsOf("ipdns") : trace[j].step = 2}

\* C19 as stated: stop_services returns True only if "systemctl stop"
\* exited with code 0 for every service of the list, and False otherwise.
C19_StopServicesResult ==
    \A k \in 1..Len(results) :
        (results[k].fn = "ipdns" /\ results[k].step = 2)
            => (results[k].res
                  <=> /\ \A n \in 1..Len(params.services) :
                            \E j \in Stops : trace[j].item = n
                      /\ \A j \in Stops : trace[j].good)

\* the "systemctl start" calls of start_services called on its own
Starts == ActsOf("start_services")

\* C20 as stated: start_services returns True only if it has started every
\* service of the list it was given, each with exit code 0, and a start
\* that fails is the last call it makes and makes it return False.
C20_StartServicesResult ==
    entry = "start_services"
        => /\ ret["start_services"] = "true"
                => \A n \in 1..Len(params.services) :
                      \E j \in Starts :
                         /\ start_order[trace[j].item] = params.services[n]
                         /\ trace[j].good
           /\ \A j \in Starts :
                 ~trace[j].good
                     => j = Len(trace) /\ ret["start_services"] \in {"false", "raised"}

\* the place of service x in the list q
IndexIn(x, q) == CHOOSE n \in 1..Len(q) : q[n] = x

\* C21 as stated: start_services starts the given services in the reverse
\* of the order in which the list names them: of two services it starts,
\* the one started first is named later in the list.
C21_StartInReverseOrder ==
    entry = "start_services"
        => \A j \in Starts : \A k \in Starts :
              j < k => IndexIn(start_order[trace[j].item], params.services)
                         > IndexIn(start_order[trace[k].item], params.services)

----------------------------------------------------------------------------
(* copy_config_files and named.conf.acl *)

\* copy_config_files has returned True to install_dns
ConfigFilesCopied ==
    \E k \in 1..Len(results) : results[k] = [fn |-> "dns", step |-> 6, res |-> TRUE]

\* C22 as stated: whenever copy_config_files of a primary install returns
\* True, the deployed named.conf.acl is the source with the primary IP in
\* place of every $ip; whenever it returns True for a secondary install,
\* every file is deployed with exactly the source content.
C22_AclSubstitution ==
    ConfigFilesCopied
        => IF Truthy(params.primary_ip)
           THEN fs.files[<<"conf", 0>>] =
                   File(ReplaceIp(SrcContent(<<"conf", 0>>), params.primary_ip))
           ELSE \A f \in ConfFiles : fs.files[f] = File(SrcContent(f))

----------------------------------------------------------------------------
(* install_bind_packages *)

\* the "rpm -q" queries made so far that failed, and their packages in the
\* order of the queries
FailedQuery(a) == a.fn = "dns" /\ a.op = "rpm -q" /\ ~a.good
NotInstalled ==
    LET q == SelectSeq(trace, FailedQuery) IN [n \in 1..Len(q) |-> q[n].item]

DnfCalls == {j \in ActsOf("dns") : trace[j].op = "dnf install"}
PackagesStep == {k \in 1..Len(results) : results[k].fn = "dns" /\ results[k].step = 1}

\* C23: "dnf install" is invoked at most once, after every package was
\* queried, with exactly the packages whose query failed, in list order;
\* install_bind_packages invokes it whenever a query failed and returns
\* its result, and returns True without it when no query failed.
C23_OnlyMissingPackages ==
    /\ Cardinality(DnfCalls) <= 1
    /\ \A j \in DnfCalls :
          /\ dnfCommand = NotInstalled
          /\ dnfCommand # <<>>
          /\ \A package \in Pkgs :
                \E q \in 1..(j - 1) : trace[q].op = "rpm -q" /\ trace[q].item = package
    /\ \A k \in PackagesStep :
          IF NotInstalled = <<>>
          THEN DnfCalls = {} /\ results[k].res /\ dnfCommand = <<>>
          ELSE \E j \in DnfCalls : results[k].res = trace[j].good

\* C23, a run where it matters: the first package is installed, the last
\* is not, dnf was handed the last one only and failed, and install_dns
\* returned False at Step 1
C23_Witness ==
    /\ pc = "done"
    /\ ret["dns"] = "false"
    /\ dnfCommand = <<MaxPkgs>>
    /\ \E j \in DnfCalls : ~trace[j].good
    /\ \E q \in ActsOf("dns") :
          trace[q].op = "rpm -q" /\ trace[q].item = 1 /\ trace[q].good
    /\ results = <<[fn |-> "dns", step |-> 1, res |-> FALSE]>>

----------------------------------------------------------------------------
(* create_log_directory of ipdns_install *)

LogActs == {j \in ActsOf("ipdns") : trace[j].step = 5}
LogStep == {k \in 1..Len(results) : results[k].fn = "ipdns" /\ results[k].step = 5}

\* the spy entries the step taken appends to trace
Appended == {j \in (Len(trace) + 1)..Len(trace') : TRUE}

\* C24: an existing log file keeps its content and a missing one is
\* created empty, by create_log_directory only; an existing log directory
\* is not created again; the file is chowned only after the chown of the
\* directory succeeded, whether or not either existed; a chown that fails
\* makes create_log_directory return False.
C24_LogFileKept ==
    /\ [](\A j \in LogActs :
              /\ trace[j].op = "chown log file"
                    => \E q \in LogActs : q < j /\ trace[q].op = "chown" /\ trace[q].good
              /\ trace[j].op \in {"chown", "chown log file"} /\ ~trace[j].good
                    => LogStep # {} /\ \A k \in LogStep : ~results[k].res)
    /\ [](\A k \in LogStep :
              results[k].res
                  => /\ \E j \in LogActs : trace[j].op = "chown" /\ trace[j].good
                     /\ \E j \in LogActs : trace[j].op = "chown log file" /\ trace[j].good)
    /\ [][
           /\ fs.files[LogFile].exists
               => /\ fs'.files[LogFile] = fs.files[LogFile]
                  /\ \A j \in Appended : trace'[j].op # "create log file"
           /\ ~fs.files[LogFile].exists /\ fs'.files[LogFile].exists
               => pc = "ipdns_5_file" /\ fs'.files[LogFile] = File(<<>>)
           /\ LogDir \in fs.dirs
               => \A j \in Appended : ~(trace'[j].step = 5 /\ trace'[j].op = "makedirs")
           /\ LogDir \notin fs.dirs /\ LogDir \in fs'.dirs
               => pc = "ipdns_5"
         ]_vars

\* C24, a run where it matters: the log directory and a log file with
\* content existed, create_log_directory returned True after both chowns,
\* no makedirs and no creation of the file, and the content is still there
C24_Witness ==
    /\ entry = "install_ipdns"
    /\ \E k \in LogStep : results[k].res
    /\ fs.files[LogFile] = File(<< <<"log", "old", 0>> >>)
    /\ \A j \in LogActs : trace[j].op \notin {"makedirs", "create log file"}
    /\ \E j \in LogActs : trace[j].op = "chown log file" /\ trace[j].good

----------------------------------------------------------------------------
(* the backups of one run of install_dns *)

\* the copy records of the destinations a backup was written for
BackedUp == {k \in 1..Len(copies) : copies[k].before.exists /\ copies[k].backed}

\* C25 as stated: within one run of install_dns the backups of two
\* different destination files are written to two different backup paths,
\* and after the run the original content of every overwritten destination
\* file is present in the backup directory.
C25_BackupsDistinct ==
    entry = "install_dns"
        => /\ \A j \in BackedUp : \A k \in BackedUp :
                 copies[j].file # copies[k].file
                     => BackupPath(copies[j]) # BackupPath(copies[k])
           /\ pc = "done"
                 => \A k \in Overwritten :
                       \E b \in DOMAIN fs.backups :
                           fs.backups[b] = copies[k].before.content

----------------------------------------------------------------------------
(* the batch steps of install_dns *)

\* create_directories, copy_named_files, copy_config_files, set_ownership,
\* set_permissions and set_sgid as steps of install_dns
BatchSteps == {2, 5, 6, 8, 9, 10}

\* the items a batch step loops over: the entries of etc_directories, the
\* named.* files found, the directories os.walk yields, and the managed
\* directories that exist (the others are skipped with a warning)
Items(s) ==
    CASE s = 2 -> EtcDirs
      [] s = 5 -> 1..found
      [] s = 6 -> ConfDirs
      [] s \in {8, 9, 10} -> {x \in Managed : <<"managed", x>> \in fs.dirs}

\* the create, backup, copy, chown and chmod calls of step s that failed
\* on an item
ItemFailed(s) ==
    {j \in ActsOf("dns") : /\ trace[j].step = s
                           /\ trace[j].item \in Items(s)
                           /\ trace[j].op # "update_acl_file"
                           /\ ~trace[j].good}

\* step s has made a call for item x
Attempted(s, x) == \E j \in ActsOf("dns") : trace[j].step = s /\ trace[j].item = x

BatchResults ==
    {k \in 1..Len(results) : results[k].fn = "dns" /\ results[k].step \in BatchSteps}

\* C26: a batch step that has returned after the create, backup, copy,
\* chown or chmod of one of its items failed has attempted every item, has
\* returned False, and install_dns has returned False with no later step
\* run.
C26_BatchAttemptsEveryItem ==
    \A k \in BatchResults :
        ItemFailed(results[k].step) # {}
            => /\ \A x \in Items(results[k].step) : Attempted(results[k].step, x)
               /\ ~results[k].res
               /\ ShortCircuited(k)

\* C26, a run where it matters: the chown of the first managed directory
\* failed, the chown of the last one was made and succeeded, set_ownership
\* returned False and install_dns ended there
C26_Witness ==
    /\ pc = "done"
    /\ results # <<>> /\ trace # <<>>
    /\ results[Len(results)] = [fn |-> "dns", step |-> 8, res |-> FALSE]
    /\ \E j \in ActsOf("dns") :
          trace[j].step = 8 /\ trace[j].item = 1 /\ ~trace[j].good
    /\ trace[Len(trace)] = Act("dns", 8, MaxManaged, 1, "chown -R", TRUE)

====
